---- MODULE Spec2Model ----
(***************************************************************************)
(* A model of the concurrent crawl engine of src/src/ConcurrentWebCrawler.js *)
(* (class ConcurrentWebCrawler).                                           *)
(*                                                                         *)
(* The crawler runs on one JavaScript thread.  A worker runs without       *)
(* interruption from one suspension to the next; it is suspended only by   *)
(* an await on network I/O (robots.txt GET, page GET) or on a timer        *)
(* (sleep).  An await on a promise that is already settled resumes in the  *)
(* microtask drain of the same callback, before any other I/O or timer     *)
(* callback: the variable `running` names the worker that holds the thread *)
(* in such a case, and nothing else is scheduled until it suspends.        *)
(*                                                                         *)
(* Time is counted in ticks.  A timer is the number of ticks left; a       *)
(* timestamp is kept as its age (Date.now() minus the timestamp), capped   *)
(* at Delay, which is all the code ever compares it with.                  *)
(***************************************************************************)
EXTENDS Integers, Sequences, FiniteSets, TLC

\* ------------------------------------------------- bounds and constants
\* One tick is the 100 ms of the idle sleep.
NumWorkers == 2      \* options.concurrency
Delay == 1           \* options.delay, in ticks
MaxDepth == 2        \* the 2 of options.maxDepth || 2
IdleSleep == 1       \* the sleep(100) of an idle worker, in ticks
QueueCap == 2        \* the 1000 of addLinksToQueue, scaled down to the model's web
MaxLinksToAdd == 2   \* the 10 of addLinksToQueue, scaled down to the model's web
MinWordLen == 2      \* countWords keeps word.length > 2
MaxWordLen == 50     \* countWords keeps word.length < 50
MaxPagesPerDomain == 50   \* the 50 of options.maxPagesPerDomain || 50
DefaultConcurrency == 5   \* the 5 of options.concurrency || 5
MaxLimit == 4        \* the largest limit that getTopWords is called with

Min(a, b) == IF a < b THEN a ELSE b

Workers == 0 .. (NumWorkers - 1)
None == "none"              \* no URL
NoWorker == NumWorkers      \* no worker

\* ------------------------------------------------------------- JS values
\* A JavaScript value that a word count can take: a number, or a string
\* (a sequence of text chunks).  `+` adds numbers and concatenates as soon
\* as one operand is a string.
Num(n) == [num |-> TRUE, n |-> n, s |-> <<>>]
Str(s) == [num |-> FALSE, n |-> 0, s |-> s]

DigitChars == <<"0", "1", "2", "3", "4", "5", "6", "7", "8", "9">>

RECURSIVE Digits(_)
Digits(n) ==
    IF n < 10 THEN <<DigitChars[n + 1]>>
    ELSE Digits(n \div 10) \o <<DigitChars[(n % 10) + 1]>>

ToStr(v) == IF v.num THEN Digits(v.n) ELSE v.s

JsAdd(a, b) ==
    IF a.num /\ b.num THEN Num(a.n + b.n) ELSE Str(ToStr(a) \o ToStr(b))

Truthy(v) == IF v.num THEN v.n # 0 ELSE v.s # <<>>

\* `x || 0`
OrZero(v) == IF Truthy(v) THEN v ELSE Num(0)

\* A plain object / Map in insertion order: a sequence of [k, v].
Keys(obj) == {obj[i].k : i \in 1 .. Len(obj)}
IndexOf(obj, k) == CHOOSE i \in 1 .. Len(obj) : obj[i].k = k
Lookup(obj, k) == obj[IndexOf(obj, k)].v
Put(obj, k, v) ==
    IF k \in Keys(obj)
    THEN [obj EXCEPT ![IndexOf(obj, k)] = [k |-> k, v |-> v]]
    ELSE Append(obj, [k |-> k, v |-> v])

\* What `{}` inherits from Object.prototype under a key a lower-case token
\* can spell: the function Object, whose string form is its source text.
ObjectPrototype == <<[k |-> "constructor", v |-> Str(<<"function Object() { [native code] }">>)]>>

\* obj[k] || 0 on a plain object created by `{}`
GetOrZero(obj, k) ==
    IF k \in Keys(obj) THEN OrZero(Lookup(obj, k))
    ELSE IF k \in Keys(ObjectPrototype) THEN OrZero(Lookup(ObjectPrototype, k))
    ELSE Num(0)

\* map.get(k) || 0 on a Map
MapGetOrZero(map, k) ==
    IF k \in Keys(map) THEN OrZero(Lookup(map, k)) ELSE Num(0)

\* reduce((sum, x) => sum + x, 0) over the values in order
RECURSIVE SumValues(_)
SumValues(obj) ==
    IF obj = <<>> THEN Num(0)
    ELSE JsAdd(SumValues(SubSeq(obj, 1, Len(obj) - 1)), obj[Len(obj)].v)

\* ------------------------------------------------------------ countWords
\* Tokens are what text.toLowerCase().replace(..).split(/\s+/) yields.
Word50 == "aaaaaaaaaaaaaaaaaaaaaaaaaaaaaaaaaaaaaaaaaaaaaaaaaa"
Word51 == "bbbbbbbbbbbbbbbbbbbbbbbbbbbbbbbbbbbbbbbbbbbbbbbbbbb"

\* word.length
TokenLength(t) ==
    CASE t = "to" -> 2
      [] t = "cat" -> 3
      [] t = "dog" -> 3
      [] t = "2024" -> 4
      [] t = "constructor" -> 11
      [] t = Word50 -> 50
      [] t = Word51 -> 51
      [] OTHER -> 0

AllDigits(t) == t \in {"2024"}

KeepToken(t) ==
    /\ TokenLength(t) > MinWordLen
    /\ TokenLength(t) < MaxWordLen
    /\ ~AllDigits(t)

RECURSIVE countWords(_)
countWords(text) ==
    IF text = <<>> THEN <<>>
    ELSE LET before == countWords(SubSeq(text, 1, Len(text) - 1))
             word == text[Len(text)]
         IN  IF KeepToken(word)
             THEN Put(before, word, JsAdd(GetOrZero(before, word), Num(1)))
             ELSE before

\* --------------------------------------------------------------- the web
\* The site being crawled: absolute URLs, what the URL class splits them
\* into, and what the server answers.  Hostname is without the port, Host
\* with it.
Seed == "http://a/"
PageP == "http://a/p"
PageX == "http://a:8/x"
PageY == "http://a:8/y"
PageD == "http://a/d"
Foreign == "http://b/z"
Binary == "http://a/f.pdf"
BinaryUpper == "http://a/g.PNG"
Fragment == "http://a/#top"
\* A second site on the same host: two branches, one of them a level longer.
DeepSeed == "http://a/s"
BranchA == "http://a/s/a"
BranchB == "http://a/s/b"
LeafA == "http://a/s/a/1"
LeafB == "http://a/s/b/1"
DeepLeaf == "http://a/s/a/1/2"

Urls == {Seed, PageP, PageX, PageY, PageD, Foreign, Binary, BinaryUpper, Fragment,
         DeepSeed, BranchA, BranchB, LeafA, LeafB, DeepLeaf}

Hostname(u) == IF u = Foreign THEN "b" ELSE "a"
\* absoluteUrl.includes('#')
HasFragment(u) == u = Fragment

Host(u) == CASE u = Foreign -> "b"
             [] u \in {PageX, PageY} -> "a:8"
             [] OTHER -> "a"
Hosts == {Host(u) : u \in Urls}
Hostnames == {Hostname(u) : u \in Urls}

\* What follows the last dot of the URL when the URL ends in .<letters>.
Extension(u) ==
    CASE u = Binary -> "pdf"
      [] u = BinaryUpper -> "PNG"
      [] OTHER -> ""

\* The i flag of the pattern: the match is on the lower-cased text.
ToLowerCase(ext) == IF ext = "PNG" THEN "png" ELSE ext

ExcludedExtensions ==
    {"pdf", "jpg", "jpeg", "png", "gif", "css", "js", "ico", "svg", "zip",
     "doc", "docx", "xls", "xlsx", "ppt", "pptx"}

HasExcludedExtensionCaseSensitive(u) == Extension(u) \in ExcludedExtensions

\* absoluteUrl.match(/\.(pdf|jpg|...|pptx)$/i)
HasExcludedExtension(u) == ToLowerCase(Extension(u)) \in ExcludedExtensions

\* The anchors of a page, each already resolved against the page's URL
\* (new URL(href, baseUrl).toString()), in document order.
Anchors(u) ==
    CASE u = Seed -> <<PageX, PageY, Foreign, PageX, Binary, PageP, Fragment>>
      [] u = PageX -> <<BinaryUpper, PageY, PageP, PageX, PageD>>
      [] u = PageY -> <<PageP, Seed>>
      [] u = PageP -> <<PageD, Seed>>
      [] u = DeepSeed -> <<BranchA, BranchB>>
      [] u = BranchA -> <<LeafA>>
      [] u = BranchB -> <<LeafB>>
      [] u = LeafA -> <<DeepLeaf>>
      [] OTHER -> <<>>

\* The text of a page as tokens.
PageText(u) ==
    CASE u = Seed -> <<"cat", "to", Word50, "dog", Word51, "cat">>
      [] u = PageX -> <<"dog", "2024">>
      [] u = PageY -> <<"cat">>
      [] u = PageP -> <<"constructor", "cat">>
      [] OTHER -> <<>>

\* The URLs that the robots.txt of a host disallows for this user agent.
RobotsDisallow(h) == IF h = "a:8" THEN {PageY} ELSE {}

\* The cached value for a host whose robots.txt could not be fetched (null).
NoRules == [rules |-> FALSE, disallow |-> {}]
Parsed(h) == [rules |-> TRUE, disallow |-> RobotsDisallow(h)]

\* robots ? robots.isAllowed(url, userAgent) : true
IsAllowed(entry, u) == IF entry.rules THEN u \notin entry.disallow ELSE TRUE

\* ---------------------------------------------------------- extractLinks
RECURSIVE Dedup(_)
Dedup(s) ==
    IF s = <<>> THEN <<>>
    ELSE LET before == Dedup(SubSeq(s, 1, Len(s) - 1))
             x == s[Len(s)]
         IN  IF \E i \in 1 .. Len(before) : before[i] = x
             THEN before ELSE Append(before, x)

KeepLinkAnyHostname(link, baseUrl) == ~HasExcludedExtension(link)

\* The test of extractLinks on a resolved link.
KeepLink(link, baseUrl) ==
    /\ Hostname(link) = Hostname(baseUrl)
    /\ ~HasExcludedExtension(link)

extractLinks(baseUrl) ==
    Dedup(SelectSeq(Anchors(baseUrl), LAMBDA l : KeepLink(l, baseUrl)))

\* ----------------------------------------------------------------- state
VARIABLES
    options,            \* the options the crawler was constructed with
    maxDepth,           \* this.maxDepth
    maxPagesPerDomain,  \* this.maxPagesPerDomain
    progressCallback,   \* this.progressCallback
    concurrency,        \* this.concurrency
    startUrl,           \* the argument that crawl() is called with
    stack,              \* WebCrawler: the calls of crawl() that have not returned
    serverCrawlData,    \* WebCrawlerMCPServer: this.crawlData, session ID -> crawl
    calls,              \* the crawl_website calls waiting for their crawl
    now,                \* Date.now() in the server
    returned,           \* the sessions that crawl_website has answered with
    response,           \* the last answer of the server to a tool call
    search,             \* searchCrawledContent: the call that is running
    dataDir,            \* the files of the data directory
    latest,             \* the last outcome of getLatestCrawlData
    started,            \* crawl(startUrl) has been called
    pc,                 \* where each worker is
    running,            \* the worker that holds the thread between two awaits, or NoWorker
    cur,                \* each worker's claimed {url, depth}
    sleepLeft,          \* ticks left of each worker's sleep
    urlQueue,           \* this.urlQueue
    visitedUrls,        \* this.visitedUrls
    crawlData,          \* this.crawlData
    wordFrequency,      \* this.wordFrequency
    totalWords,         \* this.totalWords
    totalPages,         \* this.totalPages
    errors,             \* this.errors
    activeRequests,     \* this.activeRequests
    metrics,            \* this.metrics
    domainLastRequest,  \* this.domainLastRequest, as the age of each timestamp
    robotsCache,        \* this.robotsCache
    progressLog,        \* what this.progressCallback has been called with
    robotsGets,         \* history: robots.txt GETs issued, per host
    pageGets,           \* history: page GETs issued, per URL
    sinceFetch,         \* history: age of the last page GET, per host
    fetchTooClose,      \* history: two page GETs to one host were less than Delay apart
    dequeued,           \* history: entries taken off the queue, per URL
    robotsSkipped,      \* history: the claimed URLs that the robots rules disallowed
    robotsAllowed,      \* history: the claimed URLs that a robots check allowed
    fetchFailed         \* history: the URLs whose page GET failed

vars == <<options, maxDepth, maxPagesPerDomain, progressCallback, concurrency, startUrl,
          stack,
          serverCrawlData, calls, now, returned, response, search, dataDir, latest,
          started, pc, running, cur, sleepLeft, urlQueue,
          visitedUrls, crawlData, wordFrequency, totalWords, totalPages, errors,
          activeRequests, metrics, domainLastRequest, robotsCache, progressLog,
          robotsGets, pageGets, sinceFetch, fetchTooClose, dequeued, robotsSkipped,
          robotsAllowed, fetchFailed>>

disk == <<dataDir, latest>>
mcp == <<serverCrawlData, calls, now, returned, response, search, disk>>
config == <<options, maxDepth, maxPagesPerDomain, progressCallback, concurrency, startUrl,
            stack, mcp>>

shared == <<crawlData, wordFrequency, totalWords, totalPages, progressLog>>
robotsAnswers == <<robotsSkipped, robotsAllowed>>
history == <<robotsGets, pageGets, sinceFetch, fetchTooClose, dequeued, robotsAnswers>>

NoEntry == [url |-> None, depth |-> 0]

\* A callback option that is not given.
Undefined == "undefined"

\* Options that give maxDepth and maxPagesPerDomain their defaults, start
\* every worker of the model and give no callback.
DefaultOptions ==
    [maxDepth |-> MaxDepth, maxPagesPerDomain |-> MaxPagesPerDomain,
     concurrency |-> NumWorkers, progressCallback |-> Undefined]

\* `x || d` on a number option: 0 is falsy.
OrDefault(x, d) == IF x # 0 THEN x ELSE d

\* The answer of a server that has answered no tool call yet.
NoSession == <<"", 0, "">>
NoResponse ==
    [tool |-> None, sessionId |-> NoSession, isError |-> FALSE, text |-> "", body |-> <<>>]

\* No call of searchCrawledContent is running.
NoSearch ==
    [active |-> FALSE, sessionId |-> NoSession, searchTerm |-> "", page |-> 0,
     lastIndex |-> 0, pageMatches |-> 0, matches |-> <<>>]

\* No file, as the outcome of getLatestCrawlData when it has not run or
\* has thrown.
NoFile == [prefix |-> "", timestamp |-> 0, ext |-> ""]

\* An empty data directory, and getLatestCrawlData not yet called.
NoData ==
    /\ dataDir = {}
    /\ latest = [called |-> FALSE, files |-> {}, file |-> NoFile, error |-> FALSE]

\* The state after new WebCrawlerMCPServer().
ServerConstructor ==
    /\ serverCrawlData = <<>>
    /\ calls = <<>>
    /\ now = 0
    /\ returned = <<>>
    /\ response = NoResponse
    /\ search = NoSearch

\* The state after new ConcurrentWebCrawler(opts).
constructor(opts) ==
    /\ options = opts
    /\ maxDepth = OrDefault(opts.maxDepth, MaxDepth)
    /\ maxPagesPerDomain = OrDefault(opts.maxPagesPerDomain, MaxPagesPerDomain)
    /\ concurrency = OrDefault(opts.concurrency, DefaultConcurrency)
    /\ progressCallback = IF opts.progressCallback = Undefined
                          THEN "defaultProgressCallback" ELSE opts.progressCallback
    /\ stack = <<>>
    /\ started = FALSE
    /\ pc = [w \in Workers |-> "start"]
    /\ running = NoWorker
    /\ cur = [w \in Workers |-> NoEntry]
    /\ sleepLeft = [w \in Workers |-> 0]
    /\ urlQueue = <<>>
    /\ visitedUrls = {}
    /\ crawlData = <<>>
    /\ wordFrequency = <<>>
    /\ totalWords = Num(0)
    /\ totalPages = 0
    /\ errors = <<>>
    /\ activeRequests = 0
    /\ metrics = [requestCount |-> 0, successfulRequests |-> 0, failedRequests |-> 0,
                  wordsPerPage |-> <<>>, linksPerPage |-> <<>>, concurrentPeaks |-> <<>>]
    /\ domainLastRequest = <<>>
    /\ robotsCache = <<>>
    /\ progressLog = <<>>
    /\ robotsGets = [h \in Hosts |-> 0]
    /\ pageGets = [u \in Urls |-> 0]
    /\ sinceFetch = <<>>
    /\ fetchTooClose = FALSE
    /\ dequeued = [u \in Urls |-> 0]
    /\ robotsSkipped = {}
    /\ robotsAllowed = {}
    /\ fetchFailed = {}

Init == constructor(DefaultOptions) /\ startUrl = Seed /\ ServerConstructor /\ NoData

\* ------------------------------------------------------------ operations
\* crawl(startUrl), up to the loop that starts the workers.
crawl ==
    /\ ~started
    /\ started' = TRUE
    /\ urlQueue' = Append(urlQueue, [url |-> startUrl, depth |-> 0])
    /\ UNCHANGED <<config, pc, running, cur, sleepLeft, visitedUrls, shared, errors,
                   activeRequests, metrics, domainLastRequest, robotsCache, history,
                   fetchFailed>>

PagesOfHostname(h) ==
    Cardinality({i \in 1 .. Len(crawlData) : Hostname(crawlData[i].url) = h})

SkippedOverLimit(e) ==
    \/ e.url \in visitedUrls
    \/ e.depth > maxDepth
    \/ PagesOfHostname(Hostname(e.url)) >= maxPagesPerDomain

SkippedNever(e) == FALSE

\* The test of worker() on a dequeued entry: skip it and dequeue the next.
Skipped(e) == e.url \in visitedUrls \/ e.depth > maxDepth

getNextUrlNewest(q) ==
    IF Len(q) = 0 THEN [urlData |-> NoEntry, queue |-> q]
    ELSE [urlData |-> q[Len(q)], queue |-> SubSeq(q, 1, Len(q) - 1)]

\* getNextUrl() on queue q: what it returns (NoEntry for null) and the
\* queue it leaves.
getNextUrl(q) ==
    IF Len(q) = 0 THEN [urlData |-> NoEntry, queue |-> q]
    ELSE [urlData |-> Head(q), queue |-> Tail(q)]

\* The queue after the entries that worker() dequeues and skips in a row.
RECURSIVE SkipPrefix(_)
SkipPrefix(q) ==
    IF q # <<>> /\ Skipped(getNextUrl(q).urlData)
    THEN SkipPrefix(getNextUrl(q).queue) ELSE q

\* The page GET of processUrl is issued for u.  The history keeps the age
\* of a GET only while it is younger than Delay, and stops once two GETs
\* to one host have been less than Delay apart.
IssueGet(u) ==
    LET h == Host(u)
        gap == IF h \in Keys(sinceFetch) THEN Lookup(sinceFetch, h) ELSE Delay
    IN
    /\ pageGets' = [pageGets EXCEPT ![u] = @ + 1]
    /\ fetchTooClose' = (fetchTooClose \/ gap < Delay)
    /\ sinceFetch' = IF fetchTooClose \/ gap < Delay THEN <<>>
                     ELSE Put(sinceFetch, h, 0)

NoGet == UNCHANGED <<pageGets, fetchTooClose, sinceFetch>>

AfterRobotsIgnored(w, u, isAllowed) ==
    /\ pc' = [pc EXCEPT ![w] = "fetch"]
    /\ running' = NoWorker
    /\ IssueGet(u)

\* processUrl after `await this.checkRobotsTxt(url)`: return, or GET the page.
AfterRobots(w, u, isAllowed) ==
    IF isAllowed
    THEN /\ pc' = [pc EXCEPT ![w] = "fetch"]
         /\ running' = NoWorker
         /\ IssueGet(u)
    ELSE /\ pc' = [pc EXCEPT ![w] = "unwind"]
         /\ running' = w
         /\ NoGet

MarkVisitedNot(u) == visitedUrls

\* this.visitedUrls.add(url)
MarkVisited(u) == visitedUrls \cup {u}

\* The URLs a robots check has answered "disallowed" for.
NoteRobots(u, isAllowed) ==
    /\ robotsSkipped' = IF isAllowed THEN robotsSkipped ELSE robotsSkipped \cup {u}
    /\ robotsAllowed' = IF isAllowed THEN robotsAllowed \cup {u} ELSE robotsAllowed

processUrlNoRobots(w, e) ==
    IF e.url \in visitedUrls
    THEN /\ pc' = [pc EXCEPT ![w] = "unwind"]
         /\ running' = w
         /\ UNCHANGED <<visitedUrls, robotsGets, robotsAnswers>>
         /\ NoGet
    ELSE /\ visitedUrls' = MarkVisited(e.url)
         /\ pc' = [pc EXCEPT ![w] = "fetch"]
         /\ running' = NoWorker
         /\ IssueGet(e.url)
         /\ UNCHANGED <<robotsGets, robotsAnswers>>

\* processUrl(url, depth, workerId) up to its first suspension.
processUrl(w, e) ==
    IF e.url \in visitedUrls
    THEN /\ pc' = [pc EXCEPT ![w] = "unwind"]
         /\ running' = w
         /\ UNCHANGED <<visitedUrls, robotsGets, robotsAnswers>>
         /\ NoGet
    ELSE /\ visitedUrls' = MarkVisited(e.url)
         /\ IF Host(e.url) \in Keys(robotsCache)
            THEN LET isAllowed == IsAllowed(Lookup(robotsCache, Host(e.url)), e.url) IN
                 /\ AfterRobots(w, e.url, isAllowed)
                 /\ NoteRobots(e.url, isAllowed)
                 /\ UNCHANGED robotsGets
            ELSE /\ pc' = [pc EXCEPT ![w] = "robots"]
                 /\ running' = NoWorker
                 /\ robotsGets' = [robotsGets EXCEPT ![Host(e.url)] = @ + 1]
                 /\ UNCHANGED robotsAnswers
                 /\ NoGet

QuiescentAlways == TRUE

\* The test of worker() that ends its loop when the queue is empty.
Quiescent == activeRequests = 0

\* The entries of q that are not in its suffix rest: those dequeued.
RECURSIVE CountDequeued(_, _, _)
CountDequeued(q, rest, counts) ==
    IF Len(q) = Len(rest) THEN counts
    ELSE CountDequeued(Tail(q), rest, [counts EXCEPT ![Head(q).url] = @ + 1])

AcquireTwice(n) == n + 2

\* this.activeRequests++ of worker() on a claim.
Acquire(n) == n + 1

\* One run of the loop of worker() from its top to the next suspension.
WorkerLoop(w) ==
    LET q == SkipPrefix(urlQueue) IN
    IF q = <<>>
    THEN /\ urlQueue' = <<>>
         /\ dequeued' = CountDequeued(urlQueue, <<>>, dequeued)
         /\ IF Quiescent
            THEN /\ pc' = [pc EXCEPT ![w] = "done"]
                 /\ UNCHANGED sleepLeft
            ELSE /\ pc' = [pc EXCEPT ![w] = "idle"]
                 /\ sleepLeft' = [sleepLeft EXCEPT ![w] = IdleSleep]
         /\ running' = NoWorker
         /\ UNCHANGED <<cur, visitedUrls, activeRequests, metrics, robotsGets,
                        robotsAnswers>>
         /\ NoGet
    ELSE /\ urlQueue' = getNextUrl(q).queue
         /\ dequeued' = CountDequeued(urlQueue, getNextUrl(q).queue, dequeued)
         /\ cur' = [cur EXCEPT ![w] = getNextUrl(q).urlData]
         /\ activeRequests' = Acquire(activeRequests)
         /\ metrics' = [metrics EXCEPT !.concurrentPeaks = Append(@, activeRequests')]
         /\ processUrl(w, getNextUrl(q).urlData)
         /\ UNCHANGED sleepLeft

\* No callback is running and crawl() has started every worker.
Schedulable ==
    /\ started
    /\ running = NoWorker
    /\ \A w \in Workers : w < concurrency => pc[w] # "start"

\* crawl() calls worker(i), i = 0, 1, ..., each running to its first await.
Start(w) ==
    /\ started
    /\ w < concurrency
    /\ pc[w] = "start"
    /\ \A v \in Workers : v < w => pc[v] # "start"
    /\ WorkerLoop(w)
    /\ UNCHANGED <<config, shared, errors, domainLastRequest, robotsCache, started,
                   fetchFailed>>

\* The sleep(100) of an idle worker is over.
WakeIdle(w) ==
    /\ Schedulable
    /\ pc[w] = "idle"
    /\ sleepLeft[w] = 0
    /\ WorkerLoop(w)
    /\ UNCHANGED <<config, shared, errors, domainLastRequest, robotsCache, started,
                   fetchFailed>>

\* The worker goes round its loop without having been suspended.
Continue(w) ==
    /\ running = w
    /\ pc[w] = "loop"
    /\ WorkerLoop(w)
    /\ UNCHANGED <<config, shared, errors, domainLastRequest, robotsCache, started,
                   fetchFailed>>

\* checkRobotsTxt after its GET of /robots.txt succeeded.
RobotsOk(w) ==
    LET u == cur[w].url IN
    /\ Schedulable
    /\ pc[w] = "robots"
    /\ robotsCache' = Put(robotsCache, Host(u), Parsed(Host(u)))
    /\ AfterRobots(w, u, IsAllowed(Parsed(Host(u)), u))
    /\ NoteRobots(u, IsAllowed(Parsed(Host(u)), u))
    /\ UNCHANGED <<config, started, cur, sleepLeft, urlQueue, visitedUrls, shared,
                   errors, activeRequests, metrics, domainLastRequest, robotsGets,
                   dequeued, fetchFailed>>

\* checkRobotsTxt after its GET of /robots.txt failed: the catch branch.
RobotsFail(w) ==
    LET u == cur[w].url IN
    /\ Schedulable
    /\ pc[w] = "robots"
    /\ robotsCache' = Put(robotsCache, Host(u), NoRules)
    /\ AfterRobots(w, u, TRUE)
    /\ NoteRobots(u, TRUE)
    /\ UNCHANGED <<config, started, cur, sleepLeft, urlQueue, visitedUrls, shared,
                   errors, activeRequests, metrics, domainLastRequest, robotsGets,
                   dequeued, fetchFailed>>

RECURSIVE MergeWordsOverwrite(_, _)
MergeWordsOverwrite(map, wordCount) ==
    IF wordCount = <<>> THEN map
    ELSE LET m == MergeWordsOverwrite(map, SubSeq(wordCount, 1, Len(wordCount) - 1))
             e == wordCount[Len(wordCount)]
         IN  Put(m, e.k, e.v)

\* The forEach of updateSharedData on the global map.
RECURSIVE MergeWords(_, _)
MergeWords(map, wordCount) ==
    IF wordCount = <<>> THEN map
    ELSE LET m == MergeWords(map, SubSeq(wordCount, 1, Len(wordCount) - 1))
             e == wordCount[Len(wordCount)]
         IN  Put(m, e.k, JsAdd(MapGetOrZero(m, e.k), e.v))

\* The forEach of updateSharedData on the grand total.
RECURSIVE AddCounts(_, _)
AddCounts(total, wordCount) ==
    IF wordCount = <<>> THEN total
    ELSE JsAdd(AddCounts(total, SubSeq(wordCount, 1, Len(wordCount) - 1)),
               wordCount[Len(wordCount)].v)

updateSharedDataLost(pageData, wordCount) ==
    /\ crawlData' = crawlData
    /\ totalPages' = totalPages + 1
    /\ wordFrequency' = MergeWords(wordFrequency, wordCount)
    /\ totalWords' = AddCounts(totalWords, wordCount)

\* updateSharedData(pageData, wordCount), but for the metrics.
updateSharedData(pageData, wordCount) ==
    /\ crawlData' = Append(crawlData, pageData)
    /\ totalPages' = totalPages + 1
    /\ wordFrequency' = MergeWords(wordFrequency, wordCount)
    /\ totalWords' = AddCounts(totalWords, wordCount)

HasRoomAlways(q) == TRUE

\* The test of addLinksToQueue on the size of the queue.
HasRoom(q) == Len(q) < QueueCap

MayEnqueueAtMax(depth) == depth <= maxDepth

\* The test of processUrl before addLinksToQueue(links, depth + 1).
MayEnqueue(depth) == depth < maxDepth

NotVisitedAlways(link) == TRUE

\* The test of addLinksToQueue on the link.
NotVisited(link) == link \notin visitedUrls

PushFront(q, entry) == <<entry>> \o q

\* this.urlQueue.push(entry)
Push(q, entry) == Append(q, entry)

RECURSIVE PushLinks(_, _, _)
PushLinks(q, linksToAdd, depth) ==
    IF linksToAdd = <<>> THEN q
    ELSE LET before == PushLinks(q, SubSeq(linksToAdd, 1, Len(linksToAdd) - 1), depth)
             link == linksToAdd[Len(linksToAdd)]
         IN  IF NotVisited(link) /\ HasRoom(before)
             THEN Push(before, [url |-> link, depth |-> depth])
             ELSE before

LinksToAddAll(links) == links

LinksToAddUnvisitedFirst(links) ==
    SubSeq(SelectSeq(links, NotVisited), 1,
           Min(Len(SelectSeq(links, NotVisited)), MaxLinksToAdd))

\* links.slice(0, Math.min(links.length, 10))
LinksToAdd(links) == SubSeq(links, 1, Min(Len(links), MaxLinksToAdd))

addLinksToQueueAtParentDepth(links, depth) ==
    PushLinks(urlQueue, LinksToAdd(links), depth - 1)

\* The queue after addLinksToQueue(links, depth).
addLinksToQueue(links, depth) == PushLinks(urlQueue, LinksToAdd(links), depth)

\* What processUrl computes from the response for each URL of the web:
\* countWords(extractText($)) and extractLinks($, url).
PageWordCount == [u \in Urls |-> countWords(PageText(u))]
PageLinks == [u \in Urls |-> extractLinks(u)]

RecordErrorNot(url, workerId) == errors

\* this.errors.push({url, error, timestamp, workerId})
RecordError(url, workerId) == Append(errors, [url |-> url, workerId |-> workerId])

ProgressReportStale(workerId, url, depth, pages, words) ==
    [workerId |-> workerId, url |-> url, depth |-> depth,
     totalPages |-> pages - 1, totalWords |-> words]

\* What processUrl calls this.progressCallback with, given the values of
\* this.totalPages and this.totalWords after updateSharedData.
ProgressReport(workerId, url, depth, pages, words) ==
    [workerId |-> workerId, url |-> url, depth |-> depth,
     totalPages |-> pages, totalWords |-> words]

\* Whether the call of this.progressCallback throws.  The default callback
\* only logs; one given in the options may do either.
SinkOutcomes ==
    IF progressCallback = "defaultProgressCallback" THEN {FALSE} ELSE {FALSE, TRUE}

\* processUrl after its page GET succeeded.
FetchOk(w) ==
    LET u == cur[w].url
        depth == cur[w].depth
        wordCount == PageWordCount[u]
        links == PageLinks[u]
        pageData == [url |-> u, depth |-> depth, wordCount |-> Len(wordCount),
                     totalWords |-> SumValues(wordCount), linkCount |-> Len(links),
                     words |-> wordCount, links |-> links, processedBy |-> w]
    IN
    /\ Schedulable
    /\ pc[w] = "fetch"
    /\ updateSharedData(pageData, wordCount)
    /\ progressLog' = Append(progressLog,
                             ProgressReport(w, u, depth, totalPages + 1,
                                            AddCounts(totalWords, wordCount)))
    /\ \E threw \in SinkOutcomes :
           IF threw
           THEN \* the catch branch, entered from the call of the callback
                /\ metrics' = [metrics EXCEPT !.requestCount = @ + 2,
                                              !.successfulRequests = @ + 1,
                                              !.failedRequests = @ + 1,
                                              !.wordsPerPage = Append(@, pageData.totalWords),
                                              !.linksPerPage = Append(@, pageData.linkCount)]
                /\ errors' = RecordError(u, w)
                /\ UNCHANGED urlQueue
           ELSE /\ metrics' = [metrics EXCEPT !.requestCount = @ + 1,
                                              !.successfulRequests = @ + 1,
                                              !.wordsPerPage = Append(@, pageData.totalWords),
                                              !.linksPerPage = Append(@, pageData.linkCount)]
                /\ urlQueue' = IF MayEnqueue(depth) THEN addLinksToQueue(links, depth + 1)
                               ELSE urlQueue
                /\ UNCHANGED errors
    /\ pc' = [pc EXCEPT ![w] = "unwind"]
    /\ running' = w
    /\ UNCHANGED <<config, started, cur, sleepLeft, visitedUrls, activeRequests,
                   domainLastRequest, robotsCache, history, fetchFailed>>

\* processUrl after its page GET failed: the catch branch.
FetchFail(w) ==
    /\ Schedulable
    /\ pc[w] = "fetch"
    /\ metrics' = [metrics EXCEPT !.requestCount = @ + 1, !.failedRequests = @ + 1]
    /\ errors' = RecordError(cur[w].url, w)
    /\ fetchFailed' = fetchFailed \cup {cur[w].url}
    /\ pc' = [pc EXCEPT ![w] = "unwind"]
    /\ running' = w
    /\ UNCHANGED <<config, started, cur, sleepLeft, urlQueue, visitedUrls, shared,
                   activeRequests, domainLastRequest, robotsCache, history>>

\* Date.now() - (domainLastRequest.get(domain) || 0), capped at Delay.
TimeSinceLastRequest(domain) ==
    IF domain \in Keys(domainLastRequest) THEN Lookup(domainLastRequest, domain)
    ELSE Delay

ReleaseNot(n) == n

\* The finally of worker() after processUrl.
Release(n) == n - 1

\* worker() after `await this.processUrl(..)`: the finally, then
\* respectRateLimit(url) up to its sleep.
Unwind(w) ==
    LET domain == Hostname(cur[w].url)
        since == TimeSinceLastRequest(domain)
    IN
    /\ running = w
    /\ pc[w] = "unwind"
    /\ activeRequests' = Release(activeRequests)
    /\ IF since < Delay
       THEN /\ sleepLeft' = [sleepLeft EXCEPT ![w] = Delay - since]
            /\ pc' = [pc EXCEPT ![w] = "rate"]
            /\ running' = NoWorker
            /\ UNCHANGED domainLastRequest
       ELSE /\ domainLastRequest' = Put(domainLastRequest, domain, 0)
            /\ pc' = [pc EXCEPT ![w] = "loop"]
            /\ running' = w
            /\ UNCHANGED sleepLeft
    /\ UNCHANGED <<config, started, cur, urlQueue, visitedUrls, shared, errors,
                   metrics, robotsCache, history, fetchFailed>>

\* respectRateLimit after its sleep.
WakeRate(w) ==
    /\ Schedulable
    /\ pc[w] = "rate"
    /\ sleepLeft[w] = 0
    /\ domainLastRequest' = Put(domainLastRequest, Hostname(cur[w].url), 0)
    /\ pc' = [pc EXCEPT ![w] = "loop"]
    /\ running' = w
    /\ UNCHANGED <<config, started, cur, sleepLeft, urlQueue, visitedUrls, shared,
                   errors, activeRequests, metrics, robotsCache, history, fetchFailed>>

\* One tick of time passes: timers run down, timestamps age.
Age(map) == [i \in 1 .. Len(map) |-> [k |-> map[i].k, v |-> Min(map[i].v + 1, Delay)]]
AgeYoung(map) == SelectSeq(Age(map), LAMBDA e : e.v < Delay)

Tick ==
    /\ Schedulable
    /\ \/ \E w \in Workers : sleepLeft[w] > 0
       \/ Age(domainLastRequest) # domainLastRequest
       \/ sinceFetch # <<>>
    /\ sleepLeft' = [w \in Workers |-> IF sleepLeft[w] > 0 THEN sleepLeft[w] - 1 ELSE 0]
    /\ domainLastRequest' = Age(domainLastRequest)
    /\ sinceFetch' = AgeYoung(sinceFetch)
    /\ UNCHANGED <<config, started, pc, running, cur, urlQueue, visitedUrls, shared,
                   errors, activeRequests, metrics, robotsCache, robotsGets, pageGets,
                   fetchTooClose, dequeued, robotsAnswers, fetchFailed>>

Next ==
    \/ crawl
    \/ \E w \in Workers : Start(w)
    \/ \E w \in Workers : WakeIdle(w)
    \/ \E w \in Workers : Continue(w)
    \/ \E w \in Workers : RobotsOk(w)
    \/ \E w \in Workers : RobotsFail(w)
    \/ \E w \in Workers : FetchOk(w)
    \/ \E w \in Workers : FetchFail(w)
    \/ \E w \in Workers : Unwind(w)
    \/ \E w \in Workers : WakeRate(w)
    \/ Tick

Spec == Init /\ [][Next]_vars

\* When every robots.txt GET, page GET and sleep returns, and every callback
\* that is ready runs.
Fairness ==
    /\ WF_vars(crawl)
    /\ WF_vars(Tick)
    /\ \A w \in Workers :
        /\ WF_vars(Start(w))
        /\ WF_vars(WakeIdle(w))
        /\ WF_vars(Continue(w))
        /\ WF_vars(RobotsOk(w) \/ RobotsFail(w))
        /\ WF_vars(FetchOk(w) \/ FetchFail(w))
        /\ WF_vars(Unwind(w))
        /\ WF_vars(WakeRate(w))

LiveSpec == Spec /\ Fairness

\* The crawler constructed with maxDepth 0, and with maxDepth 1.
InitDepth0 ==
    constructor([DefaultOptions EXCEPT !.maxDepth = 0]) /\ startUrl = Seed
        /\ ServerConstructor /\ NoData
SpecDepth0 == InitDepth0 /\ [][Next]_vars

InitDepth1 ==
    constructor([DefaultOptions EXCEPT !.maxDepth = 1]) /\ startUrl = Seed
        /\ ServerConstructor /\ NoData
SpecDepth1 == InitDepth1 /\ [][Next]_vars

\* The crawler constructed with maxDepth 1 and a small or the default
\* maxPagesPerDomain.
PagesLimits == {1, MaxPagesPerDomain}
InitPagesLimit ==
    \E m \in PagesLimits :
        constructor([DefaultOptions EXCEPT !.maxDepth = 1, !.maxPagesPerDomain = m])
            /\ startUrl = Seed /\ ServerConstructor /\ NoData
SpecPagesLimit == InitPagesLimit /\ [][Next]_vars

\* The crawler constructed with a progress callback of the caller's.
InitCallback ==
    constructor([DefaultOptions EXCEPT !.progressCallback = "callback"])
        /\ startUrl = Seed /\ ServerConstructor /\ NoData
SpecCallback == InitCallback /\ [][Next]_vars

\* One more level than the default depth.
DeepDepth == MaxDepth + 1

\* The crawler constructed with one worker or with all of them and with
\* maxDepth 2 or 3, crawling either site.
InitSites ==
    \E c \in {1, NumWorkers}, d \in {MaxDepth, DeepDepth}, u \in {Seed, DeepSeed} :
        constructor([DefaultOptions EXCEPT !.concurrency = c, !.maxDepth = d])
            /\ startUrl = u /\ ServerConstructor /\ NoData
SpecSites == InitSites /\ [][Next]_vars

\* ----------------------------------------------------------- getTopWords
\* The result of a number operator: a number, or NaN.
NaN == [nan |-> TRUE, n |-> 0]
Number(n) == [nan |-> FALSE, n |-> n]

\* Number(v) for a count: the strings a count can become are not numerals.
ToNumber(v) == IF v.num THEN Number(v.n) ELSE NaN

\* (a, b) => b[1] - a[1]
CompareFn(a, b) ==
    IF ToNumber(a.v).nan \/ ToNumber(b.v).nan THEN NaN
    ELSE Number(ToNumber(b.v).n - ToNumber(a.v).n)

\* Whether the comparator orders the entries consistently: it does unless
\* it returns NaN for some pair.
ConsistentComparator(entries) ==
    \A i, j \in 1 .. Len(entries) : ~CompareFn(entries[i], entries[j]).nan

\* A stable sort by a consistent comparator: e goes behind every entry that
\* the comparator does not put after it.
RECURSIVE InsertSorted(_, _)
InsertSorted(sorted, e) ==
    IF sorted = <<>> THEN <<e>>
    ELSE IF CompareFn(sorted[Len(sorted)], e).n <= 0 THEN Append(sorted, e)
    ELSE Append(InsertSorted(SubSeq(sorted, 1, Len(sorted) - 1), e), sorted[Len(sorted)])

RECURSIVE SortStable(_)
SortStable(entries) ==
    IF entries = <<>> THEN <<>>
    ELSE InsertSorted(SortStable(SubSeq(entries, 1, Len(entries) - 1)),
                      entries[Len(entries)])

Orderings(entries) ==
    {[i \in 1 .. Len(entries) |-> entries[p[i]]] :
         p \in {q \in [1 .. Len(entries) -> 1 .. Len(entries)] :
                    \A i, j \in 1 .. Len(entries) : q[i] = q[j] => i = j}}

\* Array.prototype.sort(comparefn): the stable sorted order when the
\* comparator is consistent, an implementation-defined order otherwise.
SortOutcomes(entries) ==
    IF ConsistentComparator(entries) THEN {SortStable(entries)} ELSE Orderings(entries)

\* (count / this.totalWords * 100).toFixed(2), as hundredths of a percent
\* rounded to the nearest, or NaN.
Percentage(count, total) ==
    IF ToNumber(count).nan \/ ToNumber(total).nan THEN NaN
    ELSE IF total.n = 0 THEN NaN
    ELSE Number((2 * count.n * 10000 + total.n) \div (2 * total.n))

\* getTopWords(limit): each result the call can have in the current state.
getTopWords(limit) ==
    {[i \in 1 .. Min(limit, Len(sorted)) |->
          [word |-> sorted[i].k, count |-> sorted[i].v,
           percentage |-> Percentage(sorted[i].v, totalWords)]] :
         sorted \in SortOutcomes(wordFrequency)}

\* ------------------------------------------- the sequential WebCrawler
\* class WebCrawler of src/src/analyzer.js.  crawl(url, depth) calls itself
\* for the links of the page; `stack` holds the calls that have not
\* returned, the innermost last.  A call is suspended at its robots.txt GET,
\* at its page GET, at the sleep before the next link or at its call of
\* crawl() for a link; `todo` is what is left of links.slice(0, 5).
SeqMaxLinks == 5

\* The state after new WebCrawler(options), with maxDepth 1 or 2: the same
\* fields, less those of the workers.
SeqDepths == {1, MaxDepth}
SeqInit ==
    \E d \in SeqDepths :
        constructor([DefaultOptions EXCEPT !.maxDepth = d]) /\ startUrl = Seed
            /\ ServerConstructor /\ NoData

SeqExcludedExtensions == {"pdf", "jpg", "png", "gif", "css", "js"}

\* WebCrawler.extractLinks: the tests on a resolved link that do not
\* depend on the state of the crawl.
SeqKeepLink(link, baseUrl) ==
    /\ Hostname(link) = Hostname(baseUrl)
    /\ ~HasFragment(link)
    /\ ToLowerCase(Extension(link)) \notin SeqExcludedExtensions

SeqPageLinks ==
    [u \in Urls |-> Dedup(SelectSeq(Anchors(u), LAMBDA l : SeqKeepLink(l, u)))]

\* WebCrawler.extractLinks: the links that pass the tests and are not in
\* visitedUrls, each once, in document order.
SeqExtractLinks(baseUrl) ==
    SelectSeq(SeqPageLinks[baseUrl], LAMBDA l : l \notin visitedUrls)

\* WebCrawler.countWords
RECURSIVE SeqCountWords(_)
SeqCountWords(text) ==
    IF text = <<>> THEN <<>>
    ELSE LET before == SeqCountWords(SubSeq(text, 1, Len(text) - 1))
             word == text[Len(text)]
         IN  IF TokenLength(word) > MinWordLen
             THEN Put(before, word, JsAdd(GetOrZero(before, word), Num(1)))
             ELSE before

SeqPageWordCount == [u \in Urls |-> SeqCountWords(PageText(u))]

Pop(stk) == SubSeq(stk, 1, Len(stk) - 1)
Top(stk) == stk[Len(stk)]

\* The caller goes on after the innermost call has been taken off: the for
\* loop of each call sleeps before its next link, or ends and the call
\* returns to its own caller.
RECURSIVE SeqResume(_)
SeqResume(stk) ==
    IF stk = <<>> THEN <<>>
    ELSE IF Top(stk).todo = <<>> THEN SeqResume(Pop(stk))
    ELSE [stk EXCEPT ![Len(stk)].at = "sleep"]

SeqSkipDepthOnly(url, depth) == depth > maxDepth

\* The test at the top of crawl().
SeqSkip(url, depth) == depth > maxDepth \/ url \in visitedUrls

\* crawl(url, depth) is called with stk the calls below it, up to its
\* first suspension.
SeqEnter(stk, url, depth) ==
    IF SeqSkip(url, depth)
    THEN /\ stack' = SeqResume(stk)
         /\ UNCHANGED <<visitedUrls, robotsGets>>
    ELSE /\ visitedUrls' = visitedUrls \cup {url}
         /\ robotsGets' = [robotsGets EXCEPT ![Host(url)] = @ + 1]
         /\ stack' = Append(stk, [url |-> url, depth |-> depth, at |-> "robots",
                                  todo |-> <<>>])

seqRest == <<options, maxDepth, maxPagesPerDomain, progressCallback, concurrency,
             startUrl, mcp, pc, running, cur,
             sleepLeft, urlQueue, activeRequests, domainLastRequest, robotsCache,
             progressLog, sinceFetch, fetchTooClose, dequeued>>

\* The caller's crawl(startUrl).
SeqCrawl ==
    /\ ~started
    /\ started' = TRUE
    /\ SeqEnter(<<>>, Seed, 0)
    /\ UNCHANGED <<seqRest, shared, errors, metrics, pageGets, robotsAnswers,
                   fetchFailed>>

\* crawl() after checkRobotsTxt resolved, its GET of /robots.txt having
\* succeeded.
SeqRobotsOk ==
    /\ stack # <<>>
    /\ Top(stack).at = "robots"
    /\ LET u == Top(stack).url
           isAllowed == IsAllowed(Parsed(Host(u)), u)
       IN  /\ NoteRobots(u, isAllowed)
           /\ IF isAllowed
              THEN /\ stack' = [stack EXCEPT ![Len(stack)].at = "fetch"]
                   /\ pageGets' = [pageGets EXCEPT ![u] = @ + 1]
              ELSE /\ stack' = SeqResume(Pop(stack))
                   /\ UNCHANGED pageGets
    /\ UNCHANGED <<seqRest, started, visitedUrls, shared, errors, metrics, robotsGets,
                   fetchFailed>>

\* crawl() after checkRobotsTxt resolved from its catch.
SeqRobotsFail ==
    /\ stack # <<>>
    /\ Top(stack).at = "robots"
    /\ NoteRobots(Top(stack).url, TRUE)
    /\ stack' = [stack EXCEPT ![Len(stack)].at = "fetch"]
    /\ pageGets' = [pageGets EXCEPT ![Top(stack).url] = @ + 1]
    /\ UNCHANGED <<seqRest, started, visitedUrls, shared, errors, metrics, robotsGets,
                   fetchFailed>>

\* crawl() after its page GET succeeded, up to the sleep before the first
\* link or to its return.
SeqFetchOk ==
    /\ stack # <<>>
    /\ Top(stack).at = "fetch"
    /\ LET u == Top(stack).url
           depth == Top(stack).depth
           wordCount == SeqPageWordCount[u]
           links == SeqExtractLinks(u)
           pageData == [url |-> u, depth |-> depth, wordCount |-> Len(wordCount),
                        totalWords |-> SumValues(wordCount), linkCount |-> Len(links),
                        words |-> wordCount, links |-> links]
           todo == IF depth < maxDepth
                   THEN SubSeq(links, 1, Min(Len(links), SeqMaxLinks)) ELSE <<>>
       IN  /\ metrics' = [metrics EXCEPT !.requestCount = @ + 1,
                                         !.successfulRequests = @ + 1,
                                         !.wordsPerPage = Append(@, pageData.totalWords),
                                         !.linksPerPage = Append(@, pageData.linkCount)]
           /\ crawlData' = Append(crawlData, pageData)
           /\ totalPages' = totalPages + 1
           /\ wordFrequency' = MergeWords(wordFrequency, wordCount)
           /\ totalWords' = AddCounts(totalWords, wordCount)
           /\ stack' = SeqResume([stack EXCEPT ![Len(stack)].todo = todo])
    /\ UNCHANGED <<seqRest, started, visitedUrls, errors, robotsGets, pageGets,
                   robotsAnswers, fetchFailed>>

\* crawl() after its page GET failed: the catch, then the return.
SeqFetchFail ==
    /\ stack # <<>>
    /\ Top(stack).at = "fetch"
    /\ metrics' = [metrics EXCEPT !.requestCount = @ + 1, !.failedRequests = @ + 1]
    /\ errors' = Append(errors, [url |-> Top(stack).url])
    /\ fetchFailed' = fetchFailed \cup {Top(stack).url}
    /\ stack' = SeqResume(Pop(stack))
    /\ UNCHANGED <<seqRest, started, visitedUrls, shared, robotsGets, pageGets,
                   robotsAnswers>>

\* The sleep(this.delay) before a link is over: crawl(link, depth + 1).
SeqWake ==
    /\ stack # <<>>
    /\ Top(stack).at = "sleep"
    /\ SeqEnter([stack EXCEPT ![Len(stack)].todo = Tail(@), ![Len(stack)].at = "call"],
                Head(Top(stack).todo), Top(stack).depth + 1)
    /\ UNCHANGED <<seqRest, started, shared, errors, metrics, pageGets, robotsAnswers,
                   fetchFailed>>

SeqNext ==
    \/ SeqCrawl
    \/ SeqRobotsOk
    \/ SeqRobotsFail
    \/ SeqFetchOk
    \/ SeqFetchFail
    \/ SeqWake

SeqSpec == SeqInit /\ [][SeqNext]_vars

\* Every robots.txt GET, page GET and sleep returns.
SeqFairness ==
    /\ WF_vars(SeqCrawl)
    /\ WF_vars(SeqRobotsOk \/ SeqRobotsFail)
    /\ WF_vars(SeqFetchOk \/ SeqFetchFail)
    /\ WF_vars(SeqWake)

SeqLiveSpec == SeqSpec /\ SeqFairness

\* ------------------------------------------------------- the MCP server
\* mcp-server/server.js: WebCrawlerMCPServer and its SimpleCrawler.
ServerMaxDepth == 2     \* the 2 of options.maxDepth || 2
ServerMaxPages == 10    \* the 10 of options.maxPages || 10
ServerDelay == 1000     \* the 1000 of options.delay || 1000
ServerMinWordLen == 2   \* word.length > 2
ServerMaxLinks == 3     \* links.slice(0, 3)
ExportLimit == 100      \* getTopWords(wordFrequency, 100) of exportToCSV
MaxNow == 2             \* the clock of the server stops here
MaxCalls == 2           \* the crawl_website calls that are made

\* Math.random().toString(36).substr(2, 9): at most nine characters.
Suffixes == {"k3x9q2m1z", "t7w"}

\* `crawl_${Date.now()}_${suffix}`
SessionId(time, suffix) == <<"crawl", time, suffix>>

\* generateSessionId(): the IDs it can return at the current time.
generateSessionId == {SessionId(now, suffix) : suffix \in Suffixes}

SessionIds == {SessionId(time, suffix) : time \in 0 .. MaxNow, suffix \in Suffixes}

\* The arguments of crawl_website: a number option that is 0 is not given.
ServerSeeds == {Seed, PageY}
ServerOptions == {[maxDepth |-> 0, maxPages |-> 0, delay |-> 0],
                  [maxDepth |-> 1, maxPages |-> 2, delay |-> 5]}

\* The pages whose GET fails during one crawl.
Downs == {{}, {PageX}}

\* const config = { maxDepth: ..., maxPages: ..., delay: ... }
ServerConfig(opts) ==
    [maxDepth |-> OrDefault(opts.maxDepth, ServerMaxDepth),
     maxPages |-> OrDefault(opts.maxPages, ServerMaxPages),
     delay |-> OrDefault(opts.delay, ServerDelay)]

\* The page a GET of the URL is answered with: the fragment is not sent.
Resource(url) == IF HasFragment(url) THEN Seed ELSE url

\* new SimpleCrawler(config)
SimpleCrawler(cfg) ==
    [config |-> cfg, visitedUrls |-> {}, pages |-> <<>>, wordFrequency |-> <<>>,
     totalWords |-> 0, errors |-> <<>>]

\* .filter(word => word.length > 2)
ServerWords(text) == SelectSeq(text, LAMBDA word : TokenLength(word) > ServerMinWordLen)

\* words.forEach: pageWordCount, a plain object.
RECURSIVE ServerPageWordCount(_)
ServerPageWordCount(words) ==
    IF words = <<>> THEN <<>>
    ELSE LET before == ServerPageWordCount(SubSeq(words, 1, Len(words) - 1))
             word == words[Len(words)]
         IN  Put(before, word, JsAdd(GetOrZero(before, word), Num(1)))

\* words.forEach: this.wordFrequency, a Map.
RECURSIVE ServerWordFrequency(_, _)
ServerWordFrequency(frequency, words) ==
    IF words = <<>> THEN frequency
    ELSE LET before == ServerWordFrequency(frequency, SubSeq(words, 1, Len(words) - 1))
             word == words[Len(words)]
         IN  Put(before, word, JsAdd(MapGetOrZero(before, word), Num(1)))

ServerExcludedExtensions == {"pdf", "jpg", "png", "gif", "css", "js"}

\* The links of processUrl: same hostname, not visited, no excluded
\* extension; in document order, repeats kept.
ServerLinks(url, visited) ==
    SelectSeq(Anchors(Resource(url)),
              LAMBDA link : /\ Hostname(link) = Hostname(url)
                            /\ link \notin visited
                            /\ ToLowerCase(Extension(link)) \notin ServerExcludedExtensions)

\* SimpleCrawler.processUrl(url, depth, urlQueue) for crawler c, the GETs
\* of the URLs in down failing: the crawler and the queue afterwards.
\* Pages of the model have no title.
ServerProcessUrl(c, queue, url, depth, down) ==
    LET visited == c.visitedUrls \cup {url}
        words == ServerWords(PageText(Resource(url)))
        links == ServerLinks(url, visited)
        first == SubSeq(links, 1, Min(Len(links), ServerMaxLinks))
    IN  IF Resource(url) \in down
        THEN [crawler |-> [c EXCEPT !.visitedUrls = visited,
                                    !.errors = Append(@, [url |-> url,
                                                          error |-> "Request failed"])],
              queue |-> queue]
        ELSE [crawler |->
                  [c EXCEPT !.visitedUrls = visited,
                            !.wordFrequency = ServerWordFrequency(@, words),
                            !.totalWords = @ + Len(words),
                            !.pages = Append(@, [url |-> url,
                                                 totalWords |-> Len(words),
                                                 linkCount |-> Len(links),
                                                 textContent |-> PageText(Resource(url)),
                                                 words |-> ServerPageWordCount(words),
                                                 depth |-> depth])],
              queue |->
                  IF depth < c.config.maxDepth
                  THEN queue \o [i \in 1 .. Len(first) |->
                                     [url |-> first[i], depth |-> depth + 1]]
                  ELSE queue]

MayContinueUnlimited(c, queue) == Len(queue) > 0

\* The test of the while loop of SimpleCrawler.crawl.
MayContinue(c, queue) == Len(queue) > 0 /\ Len(c.pages) < c.config.maxPages

\* The while loop of SimpleCrawler.crawl: the crawler at the test of the
\* loop, each time the test is made.
RECURSIVE ServerCrawlSteps(_, _, _)
ServerCrawlSteps(c, queue, down) ==
    IF ~MayContinue(c, queue) THEN <<c>>
    ELSE LET e == Head(queue)
         IN  IF e.url \in c.visitedUrls \/ e.depth > c.config.maxDepth
             THEN <<c>> \o ServerCrawlSteps(c, Tail(queue), down)
             ELSE LET r == ServerProcessUrl(c, Tail(queue), e.url, e.depth, down)
                  IN  <<c>> \o ServerCrawlSteps(r.crawler, r.queue, down)

\* What SimpleCrawler.crawl returns when its loop ends.
ServerCrawlLoop(c, queue, down) ==
    LET steps == ServerCrawlSteps(c, queue, down)
        last == steps[Len(steps)]
    IN  [pages |-> last.pages, wordFrequency |-> last.wordFrequency,
         totalWords |-> last.totalWords, errors |-> last.errors]

\* new SimpleCrawler(config).crawl(startUrl)
ServerCrawl ==
    [seed \in ServerSeeds, cfg \in {ServerConfig(o) : o \in ServerOptions},
     down \in Downs |->
         ServerCrawlLoop(SimpleCrawler(cfg), <<[url |-> seed, depth |-> 0]>>, down)]

\* The crawlers that new SimpleCrawler(config).crawl(startUrl) goes through.
ServerCrawlTrace ==
    [seed \in ServerSeeds, cfg \in {ServerConfig(o) : o \in ServerOptions},
     down \in Downs |->
         ServerCrawlSteps(SimpleCrawler(cfg), <<[url |-> seed, depth |-> 0]>>, down)]

\* WebCrawlerMCPServer.getTopWords(wordFrequency, limit); the counts of a
\* Map are numbers, so the comparator is consistent.
ServerGetTopWords(frequency, limit) ==
    LET sorted == SortStable(frequency)
    IN  [i \in 1 .. Min(limit, Len(sorted)) |->
             [word |-> sorted[i].k, count |-> sorted[i].v]]

\* The answer of the call handler when the tool throws.
ErrorResponse(tool, sessionId, message) ==
    [tool |-> tool, sessionId |-> sessionId, isError |-> TRUE, text |-> message,
     body |-> <<>>]

SessionNotFound == "Session not found. Please crawl a website first."

crawlerVars == <<options, maxDepth, maxPagesPerDomain, progressCallback, concurrency,
                 startUrl, stack, started,
                 pc, running, cur, sleepLeft, urlQueue, visitedUrls, shared, errors,
                 activeRequests, metrics, domainLastRequest, robotsCache, history,
                 fetchFailed>>

\* crawlWebsite(args) up to its await of crawler.crawl(url).
CrawlWebsiteStart ==
    /\ Len(calls) + Len(returned) < MaxCalls
    /\ \E url \in ServerSeeds, opts \in ServerOptions, sessionId \in generateSessionId :
           calls' = Append(calls, [sessionId |-> sessionId, url |-> url,
                                   config |-> ServerConfig(opts), startTime |-> now])
    /\ UNCHANGED <<crawlerVars, disk, serverCrawlData, now, returned, response, search>>

\* const crawlData = { sessionId, startUrl, config, results, metadata }
SessionData(call, results, endTime) ==
    [sessionId |-> call.sessionId, startUrl |-> call.url,
     config |-> call.config, results |-> results,
     metadata |-> [startTime |-> call.startTime, endTime |-> endTime,
                   duration |-> endTime - call.startTime,
                   totalPages |-> Len(results.pages),
                   totalWords |-> results.totalWords,
                   uniqueWords |-> Len(results.wordFrequency)]]

\* The answer of crawlWebsite.
CrawlResponse(data) ==
    [tool |-> "crawl_website", sessionId |-> data.sessionId,
     isError |-> FALSE, text |-> "",
     body |-> <<Len(data.results.pages), data.results.totalWords,
                Len(data.results.wordFrequency), data.metadata.duration>>]

SessionSetNot(map, sessionId, data) == map

\* this.crawlData.set(sessionId, crawlData)
SessionSet(map, sessionId, data) == Put(map, sessionId, data)

\* crawlWebsite(args) from the return of crawler.crawl(url), which has
\* slept at least once, to its answer.
CrawlWebsiteReturn ==
    \E i \in 1 .. Len(calls), down \in Downs :
        LET call == calls[i]
            data == SessionData(call, ServerCrawl[call.url, call.config, down], now)
        IN  /\ now > call.startTime
            /\ serverCrawlData' = SessionSet(serverCrawlData, call.sessionId, data)
            /\ calls' = SubSeq(calls, 1, i - 1) \o SubSeq(calls, i + 1, Len(calls))
            /\ returned' = Append(returned, [sessionId |-> call.sessionId, data |-> data])
            /\ response' = CrawlResponse(data)
            /\ UNCHANGED <<crawlerVars, disk, now, search>>

\* analyzeCrawlData(args)
AnalyzeCrawlData ==
    /\ \E sessionId \in SessionIds, topWordsLimit \in 0 .. MaxLimit :
           response' =
               IF sessionId \notin Keys(serverCrawlData)
               THEN ErrorResponse("analyze_crawl_data", sessionId, SessionNotFound)
               ELSE LET data == Lookup(serverCrawlData, sessionId)
                        topWords == ServerGetTopWords(data.results.wordFrequency,
                                                      topWordsLimit)
                    IN  [tool |-> "analyze_crawl_data", sessionId |-> sessionId,
                         isError |-> FALSE, text |-> "",
                         body |-> <<data.startUrl, data.metadata.totalPages,
                                    data.metadata.totalWords, data.metadata.uniqueWords,
                                    Percentage(Num(data.metadata.uniqueWords),
                                               Num(data.metadata.totalWords)),
                                    [i \in 1 .. Len(topWords) |->
                                         [word |-> topWords[i].word,
                                          count |-> topWords[i].count,
                                          percentage |->
                                              Percentage(topWords[i].count,
                                                         Num(data.metadata.totalWords))]]>>]
    /\ UNCHANGED <<crawlerVars, disk, serverCrawlData, calls, now, returned, search>>

\* Search terms for which the match loop ends; each is part of no other
\* token of the web.
SearchTerms == {"cat", "dog"}

\* The least position after lastIndex at which the term stands in the
\* content, 0 if there is none.  Positions count tokens.
NextMatch(searchTerm, content, lastIndex) ==
    LET at == {i \in (lastIndex + 1) .. Len(content) : content[i] = searchTerm}
    IN  IF at = {} THEN 0 ELSE CHOOSE i \in at : \A j \in at : i <= j

\* searchRegex.exec(content) for new RegExp(searchTerm, 'gi') with the
\* given lastIndex: whether there is a match, and the lastIndex afterwards.
\* A match of the empty pattern is empty and leaves lastIndex where it is.
Exec(searchTerm, content, lastIndex) ==
    IF searchTerm = ""
    THEN IF lastIndex <= Len(content)
         THEN [found |-> TRUE, lastIndex |-> lastIndex]
         ELSE [found |-> FALSE, lastIndex |-> 0]
    ELSE IF NextMatch(searchTerm, content, lastIndex) > 0
         THEN [found |-> TRUE, lastIndex |-> NextMatch(searchTerm, content, lastIndex)]
         ELSE [found |-> FALSE, lastIndex |-> 0]

\* The while loop over exec from lastIndex, when it ends: pageMatches.length.
RECURSIVE CountMatches(_, _, _)
CountMatches(searchTerm, content, lastIndex) ==
    LET match == Exec(searchTerm, content, lastIndex)
    IN  IF match.found THEN 1 + CountMatches(searchTerm, content, match.lastIndex)
        ELSE 0

MatchCount(text, searchTerm) == CountMatches(searchTerm, text, 0)

\* searchCrawledContent(args)
SearchCrawledContent ==
    /\ \E sessionId \in SessionIds, searchTerm \in SearchTerms :
           response' =
               IF sessionId \notin Keys(serverCrawlData)
               THEN ErrorResponse("search_crawled_content", sessionId, SessionNotFound)
               ELSE LET pages == Lookup(serverCrawlData, sessionId).results.pages
                        hits == SelectSeq(pages, LAMBDA page :
                                    MatchCount(page.textContent, searchTerm) > 0)
                    IN  [tool |-> "search_crawled_content", sessionId |-> sessionId,
                         isError |-> FALSE, text |-> "",
                         body |-> [i \in 1 .. Len(hits) |->
                                       [url |-> hits[i].url,
                                        matchCount |-> MatchCount(hits[i].textContent,
                                                                  searchTerm)]]]
    /\ UNCHANGED <<crawlerVars, disk, serverCrawlData, calls, now, returned, search>>

Formats == {"json", "csv", "txt", "xml"}

\* exportToCSV(wordFrequency)
exportToCSV(frequency) ==
    LET topWords == ServerGetTopWords(frequency, ExportLimit)
        total == SumValues(frequency)
    IN  [i \in 1 .. Len(topWords) |->
             <<topWords[i].word, topWords[i].count, Percentage(topWords[i].count, total)>>]

\* exportToText(data)
exportToText(data) ==
    <<data.sessionId, data.startUrl, data.metadata.startTime, data.metadata.totalPages,
      data.metadata.totalWords, data.metadata.uniqueWords,
      [i \in 1 .. Len(data.results.pages) |->
           [url |-> data.results.pages[i].url,
            totalWords |-> data.results.pages[i].totalWords]]>>

\* exportCrawlData(args)
ExportCrawlData ==
    /\ \E sessionId \in SessionIds, format \in Formats :
           response' =
               IF sessionId \notin Keys(serverCrawlData)
               THEN ErrorResponse("export_crawl_data", sessionId, SessionNotFound)
               ELSE IF format \notin {"json", "csv", "txt"}
               THEN ErrorResponse("export_crawl_data", sessionId,
                                  "Unsupported export format")
               ELSE LET data == Lookup(serverCrawlData, sessionId)
                    IN  [tool |-> "export_crawl_data", sessionId |-> sessionId,
                         isError |-> FALSE, text |-> "",
                         body |-> CASE format = "json" -> <<format, data>>
                                    [] format = "csv" ->
                                           <<format, exportToCSV(data.results.wordFrequency)>>
                                    [] OTHER -> <<format, exportToText(data)>>]
    /\ UNCHANGED <<crawlerVars, disk, serverCrawlData, calls, now, returned, search>>

\* A millisecond passes.
ServerTick ==
    /\ now < MaxNow
    /\ now' = now + 1
    /\ UNCHANGED <<crawlerVars, disk, serverCrawlData, calls, returned, response, search>>

ServerNext ==
    \/ CrawlWebsiteStart
    \/ CrawlWebsiteReturn
    \/ AnalyzeCrawlData
    \/ SearchCrawledContent
    \/ ExportCrawlData
    \/ ServerTick

ServerSpec == Init /\ [][ServerNext]_vars

\* The match loop of searchCrawledContent, one exec at a time.
MaxMatches == 3     \* pageMatches.length is counted up to here

\* Any search term, the empty one among them.
AnySearchTerms == SearchTerms \cup {""}

\* A server that has answered one crawl_website call.
SearchInit ==
    /\ constructor(DefaultOptions)
    /\ startUrl = Seed
    /\ \E url \in ServerSeeds, opts \in ServerOptions, down \in Downs,
          sessionId \in {SessionId(0, suffix) : suffix \in Suffixes} :
           LET call == [sessionId |-> sessionId, url |-> url,
                        config |-> ServerConfig(opts), startTime |-> 0]
               data == SessionData(call, ServerCrawl[url, call.config, down], 1)
           IN  /\ serverCrawlData = SessionSet(<<>>, sessionId, data)
               /\ returned = <<[sessionId |-> sessionId, data |-> data]>>
               /\ response = CrawlResponse(data)
    /\ calls = <<>>
    /\ now = 1
    /\ search = NoSearch
    /\ NoData

\* searchCrawledContent(args) up to its forEach over the pages.
SearchBegin ==
    /\ ~search.active
    /\ \E sessionId \in SessionIds, searchTerm \in AnySearchTerms :
           IF sessionId \notin Keys(serverCrawlData)
           THEN /\ response' = ErrorResponse("search_crawled_content", sessionId,
                                             SessionNotFound)
                /\ UNCHANGED search
           ELSE /\ search' = [active |-> TRUE, sessionId |-> sessionId,
                              searchTerm |-> searchTerm, page |-> 1, lastIndex |-> 0,
                              pageMatches |-> 0, matches |-> <<>>]
                /\ UNCHANGED response
    /\ UNCHANGED <<crawlerVars, disk, serverCrawlData, calls, now, returned>>

\* One test of `while ((match = searchRegex.exec(content)) !== null)`: a
\* match is pushed, or the loop ends and forEach goes to the next page.
SearchExec ==
    LET pages == Lookup(serverCrawlData, search.sessionId).results.pages
        page == pages[search.page]
        match == Exec(search.searchTerm, page.textContent, search.lastIndex)
    IN  /\ search.active
        /\ search.page <= Len(pages)
        /\ search' =
               IF match.found
               THEN [search EXCEPT !.lastIndex = match.lastIndex,
                                   !.pageMatches = Min(@ + 1, MaxMatches)]
               ELSE [search EXCEPT !.lastIndex = match.lastIndex,
                                   !.pageMatches = 0,
                                   !.page = @ + 1,
                                   !.matches = IF search.pageMatches > 0
                                               THEN Append(@, [url |-> page.url,
                                                               matchCount |->
                                                                   search.pageMatches])
                                               ELSE @]
        /\ UNCHANGED <<crawlerVars, disk, serverCrawlData, calls, now, returned, response>>

\* searchCrawledContent after its forEach: the answer.
SearchAnswer ==
    /\ search.active
    /\ search.page > Len(Lookup(serverCrawlData, search.sessionId).results.pages)
    /\ response' = [tool |-> "search_crawled_content", sessionId |-> search.sessionId,
                    isError |-> FALSE, text |-> "", body |-> search.matches]
    /\ search' = NoSearch
    /\ UNCHANGED <<crawlerVars, disk, serverCrawlData, calls, now, returned>>

SearchNext == SearchBegin \/ SearchExec \/ SearchAnswer

SearchSpec == SearchInit /\ [][SearchNext]_vars

\* The loop is synchronous code: it goes on as long as it can.
SearchFairness == WF_vars(SearchExec) /\ WF_vars(SearchAnswer)

SearchLiveSpec == SearchSpec /\ SearchFairness

(***************************************************************************)
(* The data directory: saveData of both crawlers, and                      *)
(* DataAnalyzer.getLatestCrawlData.  A file is written as the record of    *)
(* the parts of its name; its name is the string of UTF-16 code units.     *)
(***************************************************************************)
MaxStamp == 3       \* the clock of saveData runs up to here

CrawlDataPrefix == "crawl-data-"
ConcurrentCrawlDataPrefix == "concurrent-crawl-data-"
WordFrequencyPrefix == "word-frequency-"
ConcurrentWordFrequencyPrefix == "concurrent-word-frequency-"
Json == ".json"
Csv == ".csv"

\* The code units of the strings that file names are made of.
CharCodes(s) ==
    CASE
         s = "crawl-data-" -> <<99, 114, 97, 119, 108, 45, 100, 97, 116, 97, 45>> []
         s = "concurrent-crawl-data-" -> <<99, 111, 110, 99, 117, 114, 114, 101, 110, 116, 45, 99, 114, 97, 119, 108, 45, 100, 97, 116, 97, 45>> []
         s = "word-frequency-" -> <<119, 111, 114, 100, 45, 102, 114, 101, 113, 117, 101, 110, 99, 121, 45>> []
         s = "concurrent-word-frequency-" -> <<99, 111, 110, 99, 117, 114, 114, 101, 110, 116, 45, 119, 111, 114, 100, 45, 102, 114, 101, 113, 117, 101, 110, 99, 121, 45>> []
         s = ".json" -> <<46, 106, 115, 111, 110>> []
         s = ".csv" -> <<46, 99, 115, 118>>

\* new Date().toISOString().replace(/[:.]/g, '-').slice(0, -5): digits
\* of fixed width, in the order of the time.
TimestampText(t) == <<48 + (t \div 10), 48 + (t % 10)>>

\* `${prefix}${timestamp}${ext}`
FileName(f) == CharCodes(f.prefix) \o TimestampText(f.timestamp) \o CharCodes(f.ext)

\* String.prototype.startsWith and endsWith.
StartsWith(str, part) ==
    Len(str) >= Len(part) /\ SubSeq(str, 1, Len(part)) = part

EndsWith(str, part) ==
    Len(str) >= Len(part) /\ SubSeq(str, Len(str) - Len(part) + 1, Len(str)) = part

\* The order of Array.prototype.sort() without a comparator: strings by
\* their code units, a proper prefix first.
StringLess(a, b) ==
    LET differ == {i \in 1 .. Min(Len(a), Len(b)) : a[i] # b[i]}
        first == CHOOSE i \in differ : \A j \in differ : i <= j
    IN  IF differ = {} THEN Len(a) < Len(b) ELSE a[first] < b[first]

\* files.filter(file => (file.startsWith('crawl-data-') ||
\*     file.startsWith('concurrent-crawl-data-')) && file.endsWith('.json'))
CrawlFilesOf(files) ==
    {f \in files :
        /\ \/ StartsWith(FileName(f), CharCodes(CrawlDataPrefix))
           \/ StartsWith(FileName(f), CharCodes(ConcurrentCrawlDataPrefix))
        /\ EndsWith(FileName(f), CharCodes(Json))}

\* crawlFiles.sort().reverse(); crawlFiles[0]
LastOfSort(crawlFiles) ==
    CHOOSE f \in crawlFiles :
        \A g \in crawlFiles : ~StringLess(FileName(f), FileName(g))

\* getLatestCrawlData() on a directory listing: the file that is read, or
\* the error 'No crawl data found'.
getLatestCrawlData(files) ==
    IF CrawlFilesOf(files) = {}
    THEN [called |-> TRUE, files |-> files, file |-> NoFile, error |-> TRUE]
    ELSE [called |-> TRUE, files |-> files, file |-> LastOfSort(CrawlFilesOf(files)),
          error |-> FALSE]

analyzerRest == <<crawlerVars, serverCrawlData, calls, returned, response, search>>

\* WebCrawler.saveData(): the data file and the CSV of this second.
SeqSaveData ==
    /\ dataDir' = dataDir \cup
           {[prefix |-> CrawlDataPrefix, timestamp |-> now, ext |-> Json],
            [prefix |-> WordFrequencyPrefix, timestamp |-> now, ext |-> Csv]}
    /\ UNCHANGED <<analyzerRest, now, latest>>

\* ConcurrentWebCrawler.saveData(): the data file and the CSV of this second.
saveData ==
    /\ dataDir' = dataDir \cup
           {[prefix |-> ConcurrentCrawlDataPrefix, timestamp |-> now, ext |-> Json],
            [prefix |-> ConcurrentWordFrequencyPrefix, timestamp |-> now, ext |-> Csv]}
    /\ UNCHANGED <<analyzerRest, now, latest>>

\* DataAnalyzer.getLatestCrawlData().
GetLatestCrawlData ==
    /\ latest' = getLatestCrawlData(dataDir)
    /\ UNCHANGED <<analyzerRest, now, dataDir>>

\* A second passes.
AnalyzerTick ==
    /\ now < MaxStamp
    /\ now' = now + 1
    /\ UNCHANGED <<analyzerRest, disk>>

AnalyzerNext == SeqSaveData \/ saveData \/ GetLatestCrawlData \/ AnalyzerTick

AnalyzerSpec == Init /\ [][AnalyzerNext]_vars

\* ---------------------------------------------------------------- claims
Tokens == {"to", "cat", "dog", "2024", "constructor", Word50, Word51}

HasPage(u) == \E i \in 1 .. Len(crawlData) : crawlData[i].url = u
HasError(u) == \E i \in 1 .. Len(errors) : errors[i].url = u
AllDone == \A w \in Workers : pc[w] = "done"
SomeDone == \E w \in Workers : pc[w] = "done"

\* C1: no URL appears in more than one PageRecord of crawlData, whatever the
\* interleaving of the workers and however often the URL sits in urlQueue.
C1_AtMostOnePageRecord ==
    \A i, j \in 1 .. Len(crawlData) :
        crawlData[i].url = crawlData[j].url => i = j

\* Two copies of a URL have been dequeued, and it has its PageRecord.
C1_Witness == \E u \in Urls : dequeued[u] >= 2 /\ HasPage(u)

\* C2: a worker leaves its loop only when urlQueue is empty and no claim is
\* in flight; none leaves before the seed has been claimed; once a worker
\* has left, nothing is enqueued and no PageRecord or ErrorRecord is added.
C2_ExitOnlyWhenQuiescent ==
    /\ [](SomeDone => /\ dequeued[Seed] >= 1
                      /\ Seed \in visitedUrls
                      /\ urlQueue = <<>>
                      /\ activeRequests = 0
                      /\ \A w \in Workers : pc[w] \notin {"robots", "fetch", "unwind"})
    /\ [][/\ \A w \in Workers :
               (pc[w] # "done" /\ pc'[w] = "done")
                   => (urlQueue' = <<>> /\ activeRequests = 0)
          /\ SomeDone => /\ urlQueue' = urlQueue
                         /\ crawlData' = crawlData
                         /\ errors' = errors]_vars

\* One worker has left its loop after pages were crawled, another has not yet.
C2_Witness ==
    /\ \E w \in Workers : pc[w] = "done"
    /\ \E w \in Workers : pc[w] # "done"
    /\ Len(crawlData) >= 2

\* C3: when every fetch and every sleep returns, crawl() resolves: every
\* worker leaves its loop.
C3_CrawlResolves == <>AllDone

\* The crawl has resolved on the web, which has cycles, after an idle worker
\* polled the empty queue.
C3_Witness ==
    /\ AllDone
    /\ Len(crawlData) + Len(errors) >= 3
    /\ \E u \in Urls : dequeued[u] >= 2

\* C4: two page GETs to the same host are at least the configured delay
\* apart.
C4_FetchesDelayApart == ~fetchTooClose

RECURSIVE SumOverPages(_, _)
SumOverPages(pages, word) ==
    IF pages = <<>> THEN Num(0)
    ELSE LET before == SumOverPages(SubSeq(pages, 1, Len(pages) - 1), word)
             page == pages[Len(pages)]
         IN  IF word \in Keys(page.words)
             THEN JsAdd(before, Lookup(page.words, word)) ELSE before

RECURSIVE SumPageTotals(_)
SumPageTotals(pages) ==
    IF pages = <<>> THEN Num(0)
    ELSE JsAdd(SumPageTotals(SubSeq(pages, 1, Len(pages) - 1)),
               pages[Len(pages)].totalWords)

\* C6: in every state, totalWords is the sum of the values of wordFrequency
\* and the sum of PageRecord.totalWords over crawlData.
C6_TotalsAgree ==
    /\ totalWords = SumValues(wordFrequency)
    /\ totalWords = SumPageTotals(crawlData)

\* C7: urlQueue never holds more entries than the cap of addLinksToQueue.
C7_QueueWithinCap == Len(urlQueue) <= QueueCap

\* The queue is full and, for that, an unvisited link of a crawled page
\* was not enqueued.
C7_Witness ==
    /\ Len(urlQueue) = QueueCap
    /\ HasPage(PageX)
    /\ PageP \notin visitedUrls
    /\ \A i \in 1 .. Len(urlQueue) : urlQueue[i].url # PageP

\* C8: no entry of urlQueue and no claimed entry has depth > maxDepth, so
\* no PageRecord and no ErrorRecord is for an entry deeper than maxDepth.
C8_DepthWithinMax ==
    /\ \A i \in 1 .. Len(urlQueue) : urlQueue[i].depth <= maxDepth
    /\ \A w \in Workers : cur[w].depth <= maxDepth
    /\ \A i \in 1 .. Len(crawlData) : crawlData[i].depth <= maxDepth

\* A page at depth maxDepth with an unvisited link has been crawled.
C8_Witness ==
    \E i \in 1 .. Len(crawlData) :
        /\ crawlData[i].depth = maxDepth
        /\ \E j \in 1 .. Len(crawlData[i].links) :
               crawlData[i].links[j] \notin visitedUrls

\* C9: robots.txt is requested at most once per host in a run.
C9_RobotsFetchedOnce == \A h \in Hosts : robotsGets[h] <= 1

\* C10: a claimed URL that the robots rules disallow gets no page GET, no
\* PageRecord and no ErrorRecord; the step that finds it disallowed leaves
\* the request counters alone, and the worker goes on with its loop.
C10_DisallowedIsSkipped ==
    /\ [](\A u \in robotsSkipped :
              pageGets[u] = 0 /\ ~HasPage(u) /\ ~HasError(u))
    /\ [][robotsSkipped' # robotsSkipped =>
              /\ metrics'.requestCount = metrics.requestCount
              /\ metrics'.successfulRequests = metrics.successfulRequests
              /\ metrics'.failedRequests = metrics.failedRequests
              /\ crawlData' = crawlData
              /\ errors' = errors
              /\ \E w \in Workers : pc'[w] = "unwind" /\ running' = w]_vars

\* A URL was skipped for robots, and a page claimed after it has been crawled.
C10_Witness ==
    /\ PageY \in robotsSkipped
    /\ HasPage(PageP)
    /\ AllDone

ErrorCount(u) == Cardinality({i \in 1 .. Len(errors) : errors[i].url = u})

\* C11: when the page GET of a claimed URL fails, exactly one ErrorRecord is
\* appended for that URL, no PageRecord is made for it, failedRequests grows
\* by one, and the run goes on: the queue is drained and every worker leaves
\* its loop.
C11_FetchFailureRecorded ==
    /\ [](\A u \in fetchFailed : ErrorCount(u) = 1 /\ ~HasPage(u))
    /\ [][fetchFailed' # fetchFailed =>
              /\ Len(errors') = Len(errors) + 1
              /\ SubSeq(errors', 1, Len(errors)) = errors
              /\ errors'[Len(errors')].url \in fetchFailed' \ fetchFailed
              /\ metrics'.failedRequests = metrics.failedRequests + 1
              /\ metrics'.successfulRequests = metrics.successfulRequests
              /\ crawlData' = crawlData]_vars
    /\ (fetchFailed # {}) ~> (AllDone /\ urlQueue = <<>>)

\* A page GET failed, and the run went on to crawl a page that was enqueued
\* by another claim and then ended.
C11_Witness ==
    /\ PageY \in fetchFailed
    /\ HasPage(PageP)
    /\ AllDone

\* C12: urlQueue holds at most one entry per URL.
C12_NoDuplicateInQueue ==
    \A i, j \in 1 .. Len(urlQueue) :
        urlQueue[i].url = urlQueue[j].url => i = j

QueueCount(q, u) == Cardinality({i \in 1 .. Len(q) : q[i].url = u})

\* C13: a URL in visitedUrls is never enqueued again, and is fetched at most
\* once: once its claim has ended in a PageRecord, a failed fetch or a robots
\* skip, no page GET is issued for it.
C13_VisitedNeverAgain ==
    /\ [](\A u \in Urls : pageGets[u] <= 1 /\ (pageGets[u] = 1 => u \in visitedUrls))
    /\ [][\A u \in visitedUrls :
              /\ QueueCount(urlQueue', u) <= QueueCount(urlQueue, u)
              /\ (HasPage(u) \/ u \in fetchFailed \/ u \in robotsSkipped)
                     => pageGets'[u] = pageGets[u]]_vars

\* A page that links to a URL whose fetch had failed has just been crawled
\* with room in the queue, and the URL was not enqueued again.
C13_Witness ==
    /\ PageY \in fetchFailed
    /\ HasPage(PageX)
    /\ \E w \in Workers : cur[w].url = PageX /\ pc[w] = "unwind"
    /\ dequeued[PageY] = 1
    /\ QueueCount(urlQueue, PageY) = 0
    /\ QueueCount(urlQueue, PageP) = 1

\* C14: every link of a PageRecord has the hostname of the record's page,
\* and every entry of urlQueue and every claimed entry has the hostname of
\* the seed.
C14_SameHostname ==
    /\ \A i \in 1 .. Len(crawlData) : \A j \in 1 .. Len(crawlData[i].links) :
           Hostname(crawlData[i].links[j]) = Hostname(crawlData[i].url)
    /\ \A i \in 1 .. Len(urlQueue) : Hostname(urlQueue[i].url) = Hostname(Seed)
    /\ \A w \in Workers : cur[w] # NoEntry => Hostname(cur[w].url) = Hostname(Seed)

\* The seed, which has an anchor to another hostname, and a page on another
\* port of the seed's hostname have been crawled, and links are queued.
C14_Witness ==
    /\ HasPage(Seed)
    /\ Foreign \in {Anchors(Seed)[i] : i \in 1 .. Len(Anchors(Seed))}
    /\ HasPage(PageX)
    /\ urlQueue # <<>>

EndsInExcludedExtension(u) == ToLowerCase(Extension(u)) \in ExcludedExtensions

\* C15: no URL that ends in an excluded file extension, in either case, is
\* a link of a PageRecord, an entry of urlQueue or a claimed entry.
C15_NoExcludedExtension ==
    /\ \A i \in 1 .. Len(crawlData) : \A j \in 1 .. Len(crawlData[i].links) :
           ~EndsInExcludedExtension(crawlData[i].links[j])
    /\ \A i \in 1 .. Len(urlQueue) : ~EndsInExcludedExtension(urlQueue[i].url)
    /\ \A w \in Workers : ~EndsInExcludedExtension(cur[w].url)

\* Pages with an anchor to a .pdf and to a .PNG have been crawled and their
\* links enqueued.
C15_Witness ==
    /\ HasPage(Seed)
    /\ HasPage(PageX)
    /\ \E i \in 1 .. Len(Anchors(Seed)) : Extension(Anchors(Seed)[i]) = "pdf"
    /\ \E i \in 1 .. Len(Anchors(PageX)) : Extension(Anchors(PageX)[i]) = "PNG"
    /\ QueueCount(urlQueue, PageP) = 1

\* C16: a crawler constructed with maxDepth 0 claims the seed only, enqueues
\* no link and has no PageRecord deeper than 0.
C16_MaxDepthZeroHonoured ==
    options.maxDepth = 0 =>
        /\ visitedUrls \subseteq {Seed}
        /\ \A i \in 1 .. Len(urlQueue) : urlQueue[i] = [url |-> Seed, depth |-> 0]
        /\ \A i \in 1 .. Len(crawlData) : crawlData[i].depth = 0

\* C17: when the page GET for a URL is issued, the politeness step for the
\* URL's host has been executed: lastRequestTime[host] is set.
C17_PolitenessBeforeGet ==
    \A u \in Urls : pageGets[u] > 0 => Hostname(u) \in Keys(domainLastRequest)

\* C18: a page GET for a URL is issued only in a step in which the robots
\* check for that URL, made in the same claim, answers "allowed", and the
\* answer is that of the rules cached for the URL's host.
C18_RobotsBeforeGet ==
    /\ [](\A u \in Urls : pageGets[u] > 0 => u \in robotsAllowed)
    /\ [][\A u \in Urls : pageGets'[u] # pageGets[u] =>
              /\ u \in robotsAllowed' \ robotsAllowed
              /\ \E w \in Workers : cur'[w].url = u /\ pc'[w] = "fetch"
              /\ Host(u) \in Keys(robotsCache')
              /\ IsAllowed(Lookup(robotsCache', Host(u)), u)]_vars

\* The seed was fetched after its host's robots.txt was requested, and a
\* later page of that host after a check against the cached rules.
C18_Witness ==
    /\ pageGets[Seed] = 1
    /\ pageGets[PageP] = 1
    /\ robotsGets[Host(Seed)] = 1
    /\ Host(PageP) = Host(Seed)

HasSentinel(cache, h) == h \in Keys(cache) /\ Lookup(cache, h) = NoRules

\* C19: the step that caches the "no rules" sentinel for a host (its
\* robots.txt request failed) allows the URL being checked and adds no
\* ErrorRecord; from then on no robots.txt request is issued for the host and
\* the cached entry allows every URL of the host.
C19_RobotsFailureAllows ==
    [][\A h \in Hosts :
           /\ (HasSentinel(robotsCache', h) /\ ~HasSentinel(robotsCache, h)) =>
                  /\ errors' = errors
                  /\ \E u \in robotsAllowed' \ robotsAllowed : Host(u) = h
           /\ HasSentinel(robotsCache, h) =>
                  /\ robotsGets'[h] = robotsGets[h]
                  /\ h \in Keys(robotsCache')
                  /\ \A u \in Urls :
                         Host(u) = h => IsAllowed(Lookup(robotsCache', h), u)]_vars

\* C20: a crawler constructed with maxDepth 1 makes at most one PageRecord
\* for the seed and one for each of the seed's links that addLinksToQueue
\* takes (all k of them when k is within its limit), every PageRecord but
\* the seed's is for a link of the seed at depth 1, and no entry deeper than
\* 1 is ever in urlQueue or claimed.
C20_DepthOneRun ==
    options.maxDepth = 1 =>
        /\ Len(crawlData) <= 1 + Min(Len(PageLinks[Seed]), MaxLinksToAdd)
        /\ \A i \in 1 .. Len(crawlData) :
               IF crawlData[i].url = Seed THEN crawlData[i].depth = 0
               ELSE /\ crawlData[i].depth = 1
                    /\ \E j \in 1 .. Len(PageLinks[Seed]) :
                           PageLinks[Seed][j] = crawlData[i].url
        /\ \A i \in 1 .. Len(urlQueue) : urlQueue[i].depth <= 1
        /\ \A w \in Workers : cur[w].depth <= 1

\* The run with maxDepth 1 has ended with the seed and each enqueued link
\* crawled, and a link of a depth-1 page left unvisited.
C20_Witness ==
    /\ options.maxDepth = 1
    /\ AllDone
    /\ Len(crawlData) = 1 + MaxLinksToAdd
    /\ HasPage(PageX)
    /\ PageP \notin visitedUrls

InScopeAnchors(u) ==
    {Anchors(u)[i] : i \in {j \in 1 .. Len(Anchors(u)) :
                               /\ Hostname(Anchors(u)[j]) = Hostname(u)
                               /\ ~EndsInExcludedExtension(Anchors(u)[j])}}

\* C21: the step that makes a PageRecord appends at most the limit of
\* addLinksToQueue to urlQueue, and only from the first links of the page up
\* to that limit; the PageRecord's links are all the in-scope anchors of the
\* page, each once, and linkCount is their number.
C21_FanOutLimited ==
    /\ [](\A i \in 1 .. Len(crawlData) :
              /\ crawlData[i].linkCount = Len(crawlData[i].links)
              /\ {crawlData[i].links[j] : j \in 1 .. Len(crawlData[i].links)}
                     = InScopeAnchors(crawlData[i].url)
              /\ Cardinality(InScopeAnchors(crawlData[i].url)) = crawlData[i].linkCount)
    /\ [][Len(crawlData') > Len(crawlData) =>
              LET page == crawlData'[Len(crawlData')]
                  first == {page.links[j] :
                                j \in 1 .. Min(Len(page.links), MaxLinksToAdd)}
              IN  /\ Len(urlQueue') <= Len(urlQueue) + MaxLinksToAdd
                  /\ SubSeq(urlQueue', 1, Len(urlQueue)) = urlQueue
                  /\ \A k \in (Len(urlQueue) + 1) .. Len(urlQueue') :
                         urlQueue'[k].url \in first]_vars

\* A page with more links than the limit was crawled when one of its first
\* links was visited and the queue was empty: it added fewer entries than
\* there was room for and than it had unvisited links.
C21_Witness ==
    /\ \E i \in 1 .. Len(crawlData) :
           /\ crawlData[i].url = PageX
           /\ crawlData[i].linkCount > MaxLinksToAdd
           /\ PageD \in {crawlData[i].links[j] : j \in 1 .. Len(crawlData[i].links)}
    /\ \E w \in Workers : cur[w].url = PageX /\ pc[w] = "unwind"
    /\ PageD \notin visitedUrls
    /\ Len(urlQueue) = 1
    /\ urlQueue[1].url = PageP

ShouldCount(t) == TokenLength(t) >= 3 /\ TokenLength(t) <= 50 /\ ~AllDigits(t)

\* C22: the words of a PageRecord are exactly the tokens of the page's text
\* of length 3 to 50 inclusive that are not all digits.
C22_CountsLengths3To50 ==
    \A i \in 1 .. Len(crawlData) :
        Keys(crawlData[i].words)
            = {t \in {PageText(crawlData[i].url)[j] :
                          j \in 1 .. Len(PageText(crawlData[i].url))} : ShouldCount(t)}

\* C23: no URL has both a PageRecord and an ErrorRecord.
C23_OneOutcome == \A u \in Urls : ~(HasPage(u) /\ HasError(u))

RECURSIVE GrandTotal(_)
GrandTotal(pages) ==
    IF pages = <<>> THEN Num(0)
    ELSE AddCounts(GrandTotal(SubSeq(pages, 1, Len(pages) - 1)), pages[Len(pages)].words)

\* C24: the progress callback has been called once for each PageRecord, in
\* order, with that page's url and depth, with totalPages the number of
\* PageRecords up to and including it and totalWords the grand total after
\* it was merged; it has not been called for a URL whose fetch failed or
\* that the robots rules disallowed.
C24_ProgressOncePerPage ==
    /\ Len(progressLog) = Len(crawlData)
    /\ \A i \in 1 .. Len(progressLog) :
           /\ progressLog[i].url = crawlData[i].url
           /\ progressLog[i].depth = crawlData[i].depth
           /\ progressLog[i].workerId = crawlData[i].processedBy
           /\ progressLog[i].totalPages = i
           /\ progressLog[i].totalWords = GrandTotal(SubSeq(crawlData, 1, i))
           /\ progressLog[i].url \notin fetchFailed \cup robotsSkipped
    /\ progressLog # <<>> =>
           /\ progressLog[Len(progressLog)].totalPages = totalPages
           /\ progressLog[Len(progressLog)].totalWords = totalWords

\* The run has ended with pages crawled by different workers and a failed
\* fetch.
C24_Witness ==
    /\ AllDone
    /\ Len(progressLog) >= 2
    /\ \E i, j \in 1 .. Len(progressLog) : progressLog[i].workerId # progressLog[j].workerId
    /\ fetchFailed # {}

RECURSIVE FirstClaimable(_)
FirstClaimable(q) ==
    IF q = <<>> THEN NoEntry
    ELSE IF Head(q).url \notin visitedUrls /\ Head(q).depth <= maxDepth THEN Head(q)
    ELSE FirstClaimable(Tail(q))

\* C25: maxPagesPerDomain is set at construction and never changes or
\* stops a claim: whenever a worker takes entries off a queue that holds an
\* unvisited entry within maxDepth, it claims the first such entry, however
\* many PageRecords the entry's hostname already has.
C25_PagesLimitNotEnforced ==
    /\ [](maxPagesPerDomain = options.maxPagesPerDomain)
    /\ [][/\ maxPagesPerDomain' = maxPagesPerDomain
          /\ (Len(urlQueue') < Len(urlQueue) /\ FirstClaimable(urlQueue) # NoEntry) =>
                 /\ FirstClaimable(urlQueue).url \in visitedUrls'
                 /\ \E w \in Workers : cur'[w] = FirstClaimable(urlQueue)
                 /\ activeRequests' = activeRequests + 1]_vars

\* A run with maxPagesPerDomain 1 has ended with three PageRecords for one
\* hostname, the last claimed when the hostname was already over the limit.
C25_Witness ==
    /\ maxPagesPerDomain = 1
    /\ AllDone
    /\ PagesOfHostname(Hostname(Seed)) = 3

\* C26: an entry of robotsCache is never removed and never replaced by a
\* different value.
C26_CacheEntryStable ==
    [][\A h \in Keys(robotsCache) :
           /\ h \in Keys(robotsCache')
           /\ Lookup(robotsCache', h) = Lookup(robotsCache, h)]_vars

SeqReturned == started /\ stack = <<>>

\* C27: the sequential crawl(startUrl) returns, and no URL is fetched a
\* second time: the calls on the stack are for different URLs, all in
\* visitedUrls, and each URL gets at most one page GET.
C27_SequentialCrawlReturns ==
    /\ <>SeqReturned
    /\ [](\A u \in Urls : pageGets[u] <= 1)
    /\ [](\A i, j \in 1 .. Len(stack) :
              /\ stack[i].url \in visitedUrls
              /\ stack[i].url = stack[j].url => i = j)

\* The crawl has returned after a page that links back to the seed and a
\* page that links to itself were crawled, and a link to a visited URL was
\* passed to crawl() again.
C27_Witness ==
    /\ SeqReturned
    /\ HasPage(PageX)
    /\ HasPage(PageP)
    /\ PageX \in {Anchors(PageX)[i] : i \in 1 .. Len(Anchors(PageX))}
    /\ Seed \in {Anchors(PageP)[i] : i \in 1 .. Len(Anchors(PageP))}
    /\ \E i \in 1 .. Len(crawlData) :
           /\ crawlData[i].url = Seed
           /\ PageP \in {crawlData[i].links[j] : j \in 1 .. Len(crawlData[i].links)}

CountGeq(a, b) == a.num /\ b.num /\ a.n >= b.n

\* C28: getTopWords(limit) returns min(limit, number of distinct words)
\* entries in non-increasing order of count, and every word it leaves out
\* has a count no greater than that of every word it returns.
C28_TopWordsSorted ==
    \A limit \in 0 .. MaxLimit : \A top \in getTopWords(limit) :
        /\ Len(top) = Min(limit, Len(wordFrequency))
        /\ \A i \in 1 .. Len(top) - 1 : CountGeq(top[i].count, top[i + 1].count)
        /\ \A word \in Keys(wordFrequency) \ {top[i].word : i \in 1 .. Len(top)} :
               \A i \in 1 .. Len(top) :
                   CountGeq(top[i].count, Lookup(wordFrequency, word))

ReturnedIds == {returned[i].sessionId : i \in 1 .. Len(returned)}

\* C29: a session that crawl_website has answered with stays stored
\* unchanged whatever calls follow, and a call that names its ID is not
\* answered "Session not found".
C29_SessionPersists ==
    /\ \A i \in 1 .. Len(returned) :
           /\ returned[i].sessionId \in Keys(serverCrawlData)
           /\ Lookup(serverCrawlData, returned[i].sessionId) = returned[i].data
    /\ response.sessionId \in ReturnedIds => response.text # SessionNotFound

\* The workers between the claim of an entry and the finally of worker().
InProcessUrl == {w \in Workers : pc[w] \in {"robots", "fetch", "unwind"}}

\* C30: activeRequests is between 0 and the number of workers and equals
\* the number of workers inside processUrl; it goes down only by one, in
\* the step in which a worker leaves processUrl, whether the fetch failed
\* or not; every sample in concurrentPeaks is between 1 and the number of
\* workers.
C30_ActiveRequestsExact ==
    /\ [](/\ activeRequests \in 0 .. NumWorkers
          /\ activeRequests = Cardinality(InProcessUrl)
          /\ \A i \in 1 .. Len(metrics.concurrentPeaks) :
                 metrics.concurrentPeaks[i] \in 1 .. NumWorkers)
    /\ [][/\ activeRequests' < activeRequests =>
                /\ activeRequests' = activeRequests - 1
                /\ \E w \in Workers : pc[w] = "unwind" /\ pc'[w] # "unwind"
          /\ (\E w \in Workers : pc[w] = "unwind" /\ pc'[w] # "unwind") =>
                activeRequests' = activeRequests - 1]_vars

C30_Witness ==
    /\ activeRequests = NumWorkers
    /\ fetchFailed # {}
    /\ Len(metrics.concurrentPeaks) > NumWorkers

\* C31: processing one URL counts one fetch attempt at most: the step that
\* ends processUrl after the page GET raises requestCount by one and
\* exactly one of successfulRequests and failedRequests by one, also when
\* the progress callback throws after the successful GET.
C31_OneAttemptPerUrl ==
    [][\A w \in Workers :
           (pc[w] = "fetch" /\ pc'[w] = "unwind") =>
               /\ metrics'.requestCount = metrics.requestCount + 1
               /\ \/ /\ metrics'.successfulRequests = metrics.successfulRequests + 1
                     /\ metrics'.failedRequests = metrics.failedRequests
                  \/ /\ metrics'.successfulRequests = metrics.successfulRequests
                     /\ metrics'.failedRequests = metrics.failedRequests + 1]_vars

\* C32: the frontier is first in, first out.  A step either appends to
\* urlQueue or removes its oldest entries, leaving the others in their
\* order; an entry that a worker claims in the step is the last of those
\* removed; a step from an empty queue removes nothing.
C32_QueueIsFifo ==
    [][LET n == Len(urlQueue) IN
       \/ /\ Len(urlQueue') >= n
          /\ SubSeq(urlQueue', 1, n) = urlQueue
          /\ activeRequests' <= activeRequests
       \/ \E k \in 1 .. n :
              /\ urlQueue' = SubSeq(urlQueue, k + 1, n)
              /\ \A w \in Workers :
                     (w \in InProcessUrl' /\ w \notin InProcessUrl) =>
                         cur'[w] = urlQueue[k]]_vars

C32_Witness ==
    \E w \in Workers :
        /\ pc[w] \in {"robots", "fetch"}
        /\ cur[w].depth = 1
        /\ urlQueue # <<>>
        /\ \A i \in 1 .. Len(urlQueue) : urlQueue[i] # cur[w]

\* The depths of the entries of a sequence never go down.
DepthOrdered(entries) ==
    \A i, j \in 1 .. Len(entries) : i < j => entries[i].depth <= entries[j].depth

\* C33: with one worker the crawl is breadth-first: the page records of
\* crawlData are in non-decreasing order of depth, and the depth of a
\* claimed entry is never below the depth of the entry claimed before it.
C33_OneWorkerBreadthFirst ==
    /\ [](concurrency = 1 => DepthOrdered(crawlData))
    /\ [][concurrency = 1 =>
              \A w \in Workers :
                  (w \in InProcessUrl' /\ w \notin InProcessUrl) =>
                      cur'[w].depth >= cur[w].depth]_vars

C33_Witness ==
    /\ concurrency = 1
    /\ Len(crawlData) >= 3
    /\ crawlData[1].depth < crawlData[Len(crawlData)].depth
    /\ crawlData[Len(crawlData)].depth = DeepDepth

\* C34: for any number of workers the entries of urlQueue are in
\* non-decreasing order of depth from head to tail.
C34_QueueDepthOrdered == DepthOrdered(urlQueue)

\* C35: the fan-out limit comes before the visited test.  When a page is
\* stored and its depth is below maxDepth, the entries added to urlQueue
\* are those of its first MaxLinksToAdd extracted links that are not in
\* visitedUrls, in order, as far as the queue has room; no later link is
\* added, also when some of the first ones are skipped as visited.
C35_CapBeforeVisitedFilter ==
    [][\A w \in Workers :
           (/\ pc[w] = "fetch"
            /\ pc'[w] = "unwind"
            /\ Len(crawlData') > Len(crawlData)
            /\ cur[w].depth < maxDepth) =>
               LET links == PageLinks[cur[w].url]
                   first == SubSeq(links, 1, Min(Len(links), MaxLinksToAdd))
                   kept == SelectSeq(first, LAMBDA link : link \notin visitedUrls)
                   room == QueueCap - Len(urlQueue)
               IN  urlQueue' = urlQueue \o
                                   [i \in 1 .. Min(Len(kept), room) |->
                                        [url |-> kept[i], depth |-> cur[w].depth + 1]]]_vars

C35_Witness ==
    /\ \E w \in Workers : pc[w] = "unwind" /\ cur[w].url = PageX
    /\ crawlData[Len(crawlData)].url = PageX
    /\ PageY \in visitedUrls
    /\ PageLinks[PageX] = <<PageY, PageP, PageX, PageD>>
    /\ urlQueue = <<[url |-> PageP, depth |-> 2]>>

\* The workers that claim an entry in the step.
Claiming == {w \in Workers : w \in InProcessUrl' /\ w \notin InProcessUrl}

\* C36: a dequeued entry whose URL is visited or whose depth is above
\* maxDepth is dropped with no other effect.  A step that dequeues leaves
\* crawlData, errors, wordFrequency, totalWords and domainLastRequest as
\* they are; if every dequeued entry is dropped it also leaves
\* activeRequests, metrics, visitedUrls and the requests issued as they
\* are; if the last one is claimed, that one is neither visited nor too
\* deep, and the step has the effect of that one claim only.
C36_SkipHasNoEffect ==
    [][Len(urlQueue') < Len(urlQueue) =>
           /\ UNCHANGED <<crawlData, errors, wordFrequency, totalWords, totalPages,
                          domainLastRequest, progressLog>>
           /\ IF Claiming = {}
              THEN UNCHANGED <<activeRequests, metrics, visitedUrls, pageGets, robotsGets>>
              ELSE \E w \in Claiming :
                       /\ Claiming = {w}
                       /\ cur'[w].url \notin visitedUrls
                       /\ cur'[w].depth <= maxDepth
                       /\ activeRequests' = activeRequests + 1
                       /\ metrics' = [metrics EXCEPT !.concurrentPeaks =
                                                         Append(@, activeRequests + 1)]
                       /\ visitedUrls' = visitedUrls \cup {cur'[w].url}
                       /\ \A u \in Urls \ {cur'[w].url} : pageGets'[u] = pageGets[u]
                       /\ \A h \in Hosts \ {Host(cur'[w].url)} :
                              robotsGets'[h] = robotsGets[h]]_vars

C36_Witness ==
    \E u \in Urls :
        /\ dequeued[u] >= 2
        /\ pageGets[u] <= 1
        /\ metrics.requestCount + Cardinality(robotsSkipped) + activeRequests
               = Cardinality(visitedUrls)

\* crawl() has resolved: every worker it started has left its loop.
Resolved == started /\ \A w \in Workers : w < concurrency => pc[w] = "done"

\* C37: when crawl() resolves, urlQueue is empty, activeRequests is 0,
\* every visited URL has a page record, an error record or was skipped for
\* robots.txt, and concurrentPeaks has one sample per visited URL.
C37_ResolvedAccountsForAll ==
    Resolved =>
        /\ urlQueue = <<>>
        /\ activeRequests = 0
        /\ \A u \in visitedUrls : HasPage(u) \/ HasError(u) \/ u \in robotsSkipped
        /\ Len(metrics.concurrentPeaks) = Cardinality(visitedUrls)

C37_Witness ==
    /\ Resolved
    /\ crawlData # <<>>
    /\ errors # <<>>
    /\ robotsSkipped # {}
    /\ Cardinality(visitedUrls) >= 4

C39_SearchTerminates == search.active ~> ~search.active

\* The files named crawl-data-<timestamp>.json and
\* concurrent-crawl-data-<timestamp>.json among the given ones.
CrawlDataFiles(files) ==
    {f \in files : f.prefix \in {CrawlDataPrefix, ConcurrentCrawlDataPrefix}
                   /\ f.ext = Json}

\* C40: getLatestCrawlData returns the crawl data file with the most
\* recent timestamp among all files named crawl-data-<timestamp>.json and
\* concurrent-crawl-data-<timestamp>.json of the directory it has listed,
\* whichever crawler wrote it.
C40_LatestIsMostRecent ==
    (latest.called /\ CrawlDataFiles(latest.files) # {}) =>
        /\ ~latest.error
        /\ latest.file \in CrawlDataFiles(latest.files)
        /\ \A f \in CrawlDataFiles(latest.files) :
               f.timestamp <= latest.file.timestamp

====
